---- MODULE Spec2Model ----
(***************************************************************************)
(* Keyed LSB steganography codecs of the repository:                       *)
(*   - the simple codec   (src/lsb_steganography.py, src/key_manager.py)   *)
(*   - the image codec    (src/flaskr/modules/image_stego.py)              *)
(*   - the audio codec    (src/flaskr/modules/audio_stego.py)              *)
(*   - the key derivation and position generators                          *)
(*                        (src/flaskr/modules/key_manager.py)              *)
(* Byte strings and text strings are sequences of byte / character codes.  *)
(* SHA-256 is a table of real digests over the finite universe of keys.    *)
(***************************************************************************)
EXTENDS Integers, Sequences, FiniteSets, TLC

VARIABLES pc, inp, carrier, enc, dec, rng

vars == <<pc, inp, carrier, enc, dec, rng>>

(***************************************************************************)
(* Bit and byte helpers                                                    *)
(***************************************************************************)
BitAt(v, j) == (v \div (2^j)) % 2

\* (v & ~(1 << j)) | (b << j)
SetBitTo(v, j, b) == v - BitAt(v, j) * (2^j) + b * (2^j)

\* a function on 1..n as an explicit tuple (same value, evaluated once)
AsSeq(f) == f \o <<>>

MinOf(S) == CHOOSE x \in S : \A y \in S : x <= y

\* bytes[from:to] of Python, 0-based, to exclusive, clipped to the length
Slice(s, from, to) ==
    LET hi == IF to > Len(s) THEN Len(s) ELSE to
    IN IF from >= hi THEN <<>> ELSE SubSeq(s, from + 1, hi)

\* int.from_bytes(bytes, 'big') % m, without building the big integer
RECURSIVE ModBE(_, _)
ModBE(bytes, m) ==
    IF Len(bytes) = 0 THEN 0
    ELSE (ModBE(SubSeq(bytes, 1, Len(bytes) - 1), m) * 256 + bytes[Len(bytes)]) % m

\* str(n) for n >= 0, as character codes
RECURSIVE DecStr(_)
DecStr(n) == IF n < 10 THEN <<48 + n>> ELSE DecStr(n \div 10) \o <<48 + (n % 10)>>

HexDigit(d) == IF d < 10 THEN 48 + d ELSE 87 + d

\* bytes.hex()
RECURSIVE HexStr(_)
HexStr(bytes) ==
    IF Len(bytes) = 0 THEN <<>>
    ELSE <<HexDigit(bytes[1] \div 16), HexDigit(bytes[1] % 16)>> \o HexStr(Tail(bytes))

(***************************************************************************)
(* Keys                                                                    *)
(***************************************************************************)
KeyAbc      == <<97, 98, 99>>              \* "abc"
KeyABC      == <<65, 66, 67>>              \* "ABC"
KeyAbcSp    == <<32, 97, 98, 99, 32>>      \* " abc "
KeyKey1     == <<107, 101, 121, 49>>       \* "key1"
Key5        == <<53>>                      \* "5"
Key05       == <<48, 53>>                  \* "05"
KeyMinus5   == <<45, 53>>                  \* "-5"
KeyPlus5    == <<43, 53>>                  \* "+5"
KeyMinMin5  == <<45, 45, 53>>              \* "--5"
KeyEmpty    == <<>>                        \* ""
KeyBlank    == <<32>>                      \* " "

\* hashlib.sha256(s.encode()).digest()[:16]
Sha256Head(s) ==
    CASE s = KeyAbc    -> <<186, 120, 22, 191, 143, 1, 207, 234, 65, 65, 64, 222, 93, 174, 34, 35>>
      [] s = KeyABC    -> <<181, 212, 4, 92, 63, 70, 111, 169, 31, 226, 204, 106, 190, 121, 35, 42>>
      [] s = KeyAbcSp  -> <<62, 175, 25, 65, 0, 57, 67, 223, 170, 147, 90, 222, 207, 252, 170, 162>>
      [] s = KeyKey1   -> <<129, 116, 9, 150, 135, 162, 102, 33, 244, 226, 205, 215, 204, 3, 179, 218>>
      [] s = Key5      -> <<239, 45, 18, 125, 227, 123, 148, 43, 170, 208, 97, 69, 229, 75, 12, 97>>
      [] s = Key05     -> <<201, 117, 80, 206, 130, 19, 239, 92, 246, 237, 75, 164, 135, 144, 193, 55>>
      [] s = KeyMinus5 -> <<55, 170, 28, 207, 128, 228, 129, 131, 43, 45, 178, 130, 212, 212, 248, 149>>
      [] s = KeyPlus5  -> <<3, 222, 193, 182, 55, 154, 53, 203, 225, 14, 219, 108, 163, 12, 249, 135>>
      [] s = KeyMinMin5 -> <<233, 216, 59, 126, 200, 13, 195, 78, 101, 238, 199, 200, 225, 126, 53, 192>>
      [] s = KeyEmpty  -> <<227, 176, 196, 66, 152, 252, 28, 20, 154, 251, 244, 200, 153, 111, 185, 36>>
      [] s = KeyBlank  -> <<54, 169, 231, 241, 201, 91, 130, 255, 185, 151, 67, 224, 197, 196, 206, 149>>

(***************************************************************************)
(* Simple codec: KeyManager (src/key_manager.py)                           *)
(***************************************************************************)
\* KeyManager.__init__: key_hash = sha256(str(key)), the key taken as given
KeyHash(key) == Sha256Head(key)

\* self.bit_offset = self.key_hash[8] % 8
BitOffset(key) == KeyHash(key)[9] % 8

\* get_starting_position: position_seed % (data_length // 2), 0 when length <= 1
GetStartingPosition(key, data_length) ==
    IF data_length <= 1 THEN 0
    ELSE ModBE(SubSeq(KeyHash(key), 1, 4), data_length \div 2)

\* get_metadata
GetMetadata(key) ==
    LET h == KeyHash(key)
    IN [key_hash      |-> SubSeq(HexStr(SubSeq(h, 1, 8)), 1, 16),
        bit_offset    |-> BitOffset(key),
        position_seed |-> h[3] * 256 + h[4],
        step_seed     |-> h[15] * 256 + h[16]]

\* validate_key
ValidateKey(key, metadata) ==
    LET current == GetMetadata(key)
    IN /\ current.key_hash = metadata.key_hash
       /\ current.bit_offset = metadata.bit_offset
       /\ current.position_seed = metadata.position_seed
       /\ current.step_seed = metadata.step_seed

(***************************************************************************)
(* Simple codec: LSBSteganography (src/lsb_steganography.py)               *)
(***************************************************************************)
MAGIC_HEADER == <<76, 83, 66, 83>>         \* b'LSBS'
VERSION == 1

TypeText  == <<116, 101, 120, 116>>        \* 'text'
TypeImage == <<105, 109, 97, 103, 101>>    \* 'image'

EndPattern == <<1, 0, 1, 0, 1, 0, 1, 0>>

\* the metadata dict built by encode
MetadataOf(key, payload_type, payload_size) ==
    [version      |-> VERSION,
     payload_type |-> payload_type,
     payload_size |-> payload_size,
     key_info     |-> GetMetadata(key)]

\* json.dumps(metadata).encode('utf-8')
JsonDumps(md) ==
    <<123, 34, 118, 101, 114, 115, 105, 111, 110, 34, 58, 32>>      \* {"version":_
    \o DecStr(md.version)
    \o <<44, 32, 34, 112, 97, 121, 108, 111, 97, 100, 95, 116, 121, 112, 101, 34, 58, 32, 34>>
                                                                     \* , "payload_type": "
    \o md.payload_type
    \o <<34, 44, 32, 34, 112, 97, 121, 108, 111, 97, 100, 95, 115, 105, 122, 101, 34, 58, 32>>
                                                                     \* ", "payload_size":_
    \o DecStr(md.payload_size)
    \o <<44, 32, 34, 107, 101, 121, 95, 105, 110, 102, 111, 34, 58, 32, 123,
         34, 107, 101, 121, 95, 104, 97, 115, 104, 34, 58, 32, 34>>  \* , "key_info": {"key_hash": "
    \o md.key_info.key_hash
    \o <<34, 44, 32, 34, 98, 105, 116, 95, 111, 102, 102, 115, 101, 116, 34, 58, 32>>
                                                                     \* ", "bit_offset":_
    \o DecStr(md.key_info.bit_offset)
    \o <<44, 32, 34, 112, 111, 115, 105, 116, 105, 111, 110, 95, 115, 101, 101, 100, 34, 58, 32>>
                                                                     \* , "position_seed":_
    \o DecStr(md.key_info.position_seed)
    \o <<44, 32, 34, 115, 116, 101, 112, 95, 115, 101, 101, 100, 34, 58, 32>>
                                                                     \* , "step_seed":_
    \o DecStr(md.key_info.step_seed)
    \o <<125, 125>>                                                  \* }}

\* _bytes_to_bits emitting the most significant bit of every byte first
BytesToBitsMsbFirst(data) ==
    AsSeq([i \in 1..(8 * Len(data)) |-> BitAt(data[((i - 1) \div 8) + 1], 7 - ((i - 1) % 8))])

\* _bytes_to_bits: bit i of every byte, i = 0..7
BytesToBits(data) ==
    AsSeq([i \in 1..(8 * Len(data)) |-> BitAt(data[((i - 1) \div 8) + 1], (i - 1) % 8)])

\* _bits_to_bytes: pad with 0 to a multiple of 8, bit j of a byte from bits[i + j]
BitsToBytes(bits) ==
    LET bit(q) == IF q <= Len(bits) THEN bits[q] ELSE 0
    IN AsSeq([b \in 1..((Len(bits) + 7) \div 8) |->
            bit(8 * b - 7) + 2 * bit(8 * b - 6) + 4 * bit(8 * b - 5) + 8 * bit(8 * b - 4)
            + 16 * bit(8 * b - 3) + 32 * bit(8 * b - 2) + 64 * bit(8 * b - 1) + 128 * bit(8 * b)])

\* EncodeMessage with the capacity comparison off by one (>= for >)
EncodeMessageOffByOne(cover, message, key) ==
    LET message_bits == BytesToBits(message) \o EndPattern
        n            == Len(cover)
        start_pos    == GetStartingPosition(key, n)
        target_bit   == BitOffset(key) % 8
    IN IF Len(message_bits) >= n
       THEN [ok |-> FALSE, err |-> "Cover data too small for message",
             data |-> cover, written |-> {}]
       ELSE [ok |-> TRUE, err |-> "",
             data |-> AsSeq([p \in 1..n |->
                         LET i == (p - 1 - start_pos) % n
                         IN IF i < Len(message_bits)
                            THEN SetBitTo(cover[p], target_bit, message_bits[i + 1])
                            ELSE cover[p]]),
             written |-> {(start_pos + i) % n : i \in 0..(Len(message_bits) - 1)}]

\* _encode_message. The check inside the loop (i >= len(cover_array)) cannot
\* fire after the capacity check before it; the positions (start_pos + i) % n,
\* i < n, are pairwise distinct, so each carrier byte receives at most one bit.
EncodeMessage(cover, message, key) ==
    LET message_bits == BytesToBits(message) \o EndPattern
        n            == Len(cover)
        start_pos    == GetStartingPosition(key, n)
        target_bit   == BitOffset(key) % 8
    IN IF Len(message_bits) > n
       THEN [ok |-> FALSE, err |-> "Cover data too small for message",
             data |-> cover, written |-> {}]
       ELSE [ok |-> TRUE, err |-> "",
             data |-> AsSeq([p \in 1..n |->
                         LET i == (p - 1 - start_pos) % n
                         IN IF i < Len(message_bits)
                            THEN SetBitTo(cover[p], target_bit, message_bits[i + 1])
                            ELSE cover[p]]),
             written |-> {(start_pos + i) % n : i \in 0..(Len(message_bits) - 1)}]

\* encode, lines 41-58: MAGIC + VERSION + METADATA_SIZE + METADATA + PAYLOAD
SimpleMessage(key, payload_data, payload_type) ==
    LET metadata_bytes == JsonDumps(MetadataOf(key, payload_type, Len(payload_data)))
        metadata_size  == Len(metadata_bytes)
    IN MAGIC_HEADER \o <<VERSION>>
       \o <<metadata_size \div 256, metadata_size % 256>>
       \o metadata_bytes \o payload_data

\* encode
SimpleEncode(key, cover_data, payload_data, payload_type) ==
    IF Len(cover_data) * 8 < Len(payload_data) * 8 + 1024
    THEN [ok |-> FALSE, err |-> "Cover data too small for payload",
          data |-> cover_data, written |-> {}]
    ELSE EncodeMessage(cover_data, SimpleMessage(key, payload_data, payload_type), key)

\* _decode_message: bits are read in order until the last 8 read equal the
\* end pattern (at any bit alignment) or the data is exhausted
DecodeMessage(encoded_data, key) ==
    LET n          == Len(encoded_data)
        start_pos  == GetStartingPosition(key, n)
        target_bit == BitOffset(key) % 8
        b          == AsSeq([i \in 1..n |->
                          BitAt(encoded_data[((start_pos + i - 1) % n) + 1], target_bit)])
        hits       == {i \in 8..n : \A j \in 1..8 : b[i - 8 + j] = EndPattern[j]}
        nread      == IF hits = {} THEN n ELSE MinOf(hits)
        message_bits == IF hits = {} THEN b ELSE SubSeq(b, 1, nread - 8)
    IN [bytes |-> BitsToBytes(message_bits),
        read  |-> {(start_pos + i) % n : i \in 0..(nread - 1)}]

(***************************************************************************)
(* Inputs of the simple codec                                              *)
(***************************************************************************)
SimpleKeys   == {KeyAbc, KeyABC}
PayloadTypes == {TypeText}
PayloadBytes == {33, 105}                  \* '!', 'i'
MaxPayloadLen == 1
Payloads == UNION {[1..n -> PayloadBytes] : n \in 0..MaxPayloadLen}

MinCoverLen == 1359
CoverSpan   == 10
CoverLens   == MinCoverLen..(MinCoverLen + CoverSpan)
CoverKinds  == {"zeros", "ramp"}

\* cover contents: b'\x00' * n, b'\xff' * n, (bytes(range(256)) * m)[:n]
CoverOf(kind, n) ==
    AsSeq([i \in 1..n |-> CASE kind = "zeros" -> 0
                            [] kind = "ones"  -> 255
                            [] kind = "ramp"  -> (i - 1) % 256])

\* json.loads on the metadata bytes: the dict whose dump is these bytes;
\* no dict (the empty set) stands for JSONDecodeError / UnicodeDecodeError
JsonLoads(bytes) ==
    {md \in {MetadataOf(k, t, n) : k \in SimpleKeys, t \in PayloadTypes, n \in 0..(MaxPayloadLen + 1)} :
        JsonDumps(md) = bytes}

DecErr(msg, rd) ==
    [ok |-> FALSE, err |-> msg, payload |-> <<>>, name |-> <<>>, size |-> 0, read |-> rd]

\* decode
SimpleDecode(key, encoded_data) ==
    LET dm      == DecodeMessage(encoded_data, key)
        message == dm.bytes
    IN IF Len(message) < 7 \/ Slice(message, 0, 4) # MAGIC_HEADER
       THEN DecErr("Invalid or corrupted steganography data", dm.read)
       ELSE IF message[5] # VERSION
       THEN DecErr("Unsupported version", dm.read)
       ELSE LET metadata_size == message[6] * 256 + message[7]
            IN IF Len(message) < 7 + metadata_size
               THEN DecErr("Corrupted metadata", dm.read)
               ELSE LET parsed == JsonLoads(Slice(message, 7, 7 + metadata_size))
                    IN IF parsed = {}
                       THEN DecErr("Invalid metadata format", dm.read)
                       ELSE LET metadata == CHOOSE md \in parsed : TRUE
                                payload_start == 7 + metadata_size
                                expected_payload_size == metadata.payload_size
                                payload_data == Slice(message, payload_start,
                                                      payload_start + expected_payload_size)
                            IN IF ~ValidateKey(key, metadata.key_info)
                               THEN DecErr("Invalid key - cannot decode with this key", dm.read)
                               ELSE IF Len(payload_data) # expected_payload_size
                               THEN DecErr("Payload size mismatch", dm.read)
                               ELSE [ok |-> TRUE, err |-> "", payload |-> payload_data,
                                     name |-> metadata.payload_type,
                                     size |-> metadata.payload_size, read |-> dm.read]

(***************************************************************************)
(* Simple codec as a state machine: a cover is encoded once, then decoded  *)
(***************************************************************************)
NoEnc == [ok |-> FALSE, err |-> "", written |-> {}]
NoDec == [key |-> <<>>, ok |-> FALSE, err |-> "", payload |-> <<>>, name |-> <<>>,
          size |-> 0, read |-> {}]

SimpleInit ==
    /\ rng = 0
    /\ pc = "ready"
    /\ inp \in [codec: {"simple"}, key: SimpleKeys, coverLen: CoverLens, kind: CoverKinds,
                payload: Payloads, ptype: PayloadTypes]
    /\ carrier = CoverOf(inp.kind, inp.coverLen)
    /\ enc = NoEnc
    /\ dec = NoDec

\* LSBSteganography(inp.key).encode(cover, inp.payload, inp.ptype)
LSBEncode ==
    /\ pc = "ready"
    /\ inp.codec = "simple"
    /\ LET r == SimpleEncode(inp.key, carrier, inp.payload, inp.ptype)
       IN /\ enc' = [ok |-> r.ok, err |-> r.err, written |-> r.written]
          /\ carrier' = r.data
          /\ pc' = IF r.ok THEN "encoded" ELSE "encFailed"
    /\ UNCHANGED <<inp, dec, rng>>

\* LSBSteganography(key2).decode(carrier), on the encoder's output
LSBDecode ==
    /\ pc = "encoded"
    /\ inp.codec = "simple"
    /\ \E key2 \in SimpleKeys :
          dec' = [key |-> key2] @@ SimpleDecode(key2, carrier)
    /\ pc' = "decoded"
    /\ UNCHANGED <<inp, carrier, enc, rng>>

SimpleNext == LSBEncode \/ LSBDecode

SpecSimple == SimpleInit /\ [][SimpleNext]_vars

(***************************************************************************)
(* Key derivation and position generators                                  *)
(* (src/flaskr/modules/key_manager.py)                                     *)
(***************************************************************************)
\* the whitespace characters str.strip() removes (ASCII)
SpaceChars == {9, 10, 11, 12, 13, 28, 29, 30, 31, 32}

\* str.lstrip(chars): leading characters in drop are removed
RECURSIVE LStrip(_, _)
LStrip(s, drop) ==
    IF Len(s) > 0 /\ s[1] \in drop THEN LStrip(Tail(s), drop) ELSE s

\* str.rstrip(chars)
RECURSIVE RStrip(_, _)
RStrip(s, drop) ==
    IF Len(s) > 0 /\ s[Len(s)] \in drop THEN RStrip(SubSeq(s, 1, Len(s) - 1), drop) ELSE s

\* str.strip()
Strip(s) == RStrip(LStrip(s, SpaceChars), SpaceChars)

Lower(s) == AsSeq([i \in 1..Len(s) |-> IF s[i] \in 65..90 THEN s[i] + 32 ELSE s[i]])

\* _normalize_key_str: str(key).strip().lower()
NormalizeKeyStr(key) == Lower(Strip(key))

\* str.isdigit()
IsDigitStr(s) == Len(s) > 0 /\ \A i \in 1..Len(s) : s[i] \in 48..57

RECURSIVE DecVal(_)
DecVal(s) == IF Len(s) = 0 THEN 0 ELSE DecVal(SubSeq(s, 1, Len(s) - 1)) * 10 + (s[Len(s)] - 48)

\* big-endian bytes of n >= 0 without leading zero bytes
RECURSIVE ToBE(_)
ToBE(n) == IF n = 0 THEN <<>> ELSE ToBE(n \div 256) \o <<n % 256>>

\* key_to_int. The integer is kept as sign and big-endian magnitude, because
\* a hashed key gives a 64-bit value.
KeyToInt(key) ==
    LET s      == NormalizeKeyStr(key)
        digits == LStrip(s, {45})
        hashed == [neg |-> FALSE, mag |-> LStrip(SubSeq(Sha256Head(s), 1, 8), {0})]
    IN IF Len(s) = 0 THEN [neg |-> FALSE, mag |-> <<>>]
       ELSE IF IsDigitStr(digits)
       THEN \* int(s) raises for more than one leading '-'; the except falls
            \* through to the hash
            IF Len(s) - Len(digits) <= 1
            THEN [neg |-> Len(s) > Len(digits) /\ DecVal(digits) # 0,
                  mag |-> ToBE(DecVal(digits))]
            ELSE hashed
       ELSE hashed

\* validate_key
ValidKey(key) == NormalizeKeyStr(key) # <<>>

\* abs(int(key_int)) % m
AbsMod(key_int, m) == ModBE(key_int.mag, m)

\* math.gcd
RECURSIVE Gcd(_, _)
Gcd(a, b) == IF b = 0 THEN a ELSE Gcd(b, a % b)

\* the while loop of _stride_for, with the number of iterations made; fuel
\* bounds the iterations the model follows (done = FALSE when it runs out)
RECURSIVE StrideLoop(_, _, _, _)
StrideLoop(stride, total, iters, fuel) ==
    IF Gcd(stride, total) = 1 THEN [stride |-> stride, iters |-> iters, done |-> TRUE]
    ELSE IF fuel = 0 THEN [stride |-> stride, iters |-> iters, done |-> FALSE]
    ELSE StrideLoop(IF stride + 1 >= total THEN 1 ELSE stride + 1, total, iters + 1, fuel - 1)

\* StrideFor without the loop that makes the stride coprime with total
StrideForNoCoprime(total, key_int) ==
    IF total <= 1 THEN [stride |-> 1, iters |-> 0, done |-> TRUE]
    ELSE [stride |-> 1 + AbsMod(key_int, IF total - 1 > 1 THEN total - 1 ELSE 1),
          iters |-> 0, done |-> TRUE]

\* _stride_for
StrideFor(total, key_int) ==
    IF total <= 1 THEN [stride |-> 1, iters |-> 0, done |-> TRUE]
    ELSE StrideLoop(1 + AbsMod(key_int, IF total - 1 > 1 THEN total - 1 ELSE 1),
                    total, 0, 2 * total)

\* get_embedding_positions (lsb_count is not used by the code)
GetEmbeddingPositions(key, data_length, cover_size, start_location) ==
    LET total  == cover_size
        start  == start_location % (IF total > 1 THEN total ELSE 1)
        count  == IF data_length > total THEN total ELSE data_length
        stride == StrideFor(total, KeyToInt(key)).stride
    IN AsSeq([i \in 1..count |-> (start + (i - 1) * stride) % total])

\* random.seed(a) followed by draws of random below n. The Mersenne Twister is
\* replaced by a small linear congruential generator: what is kept is that the
\* draws are a function of abs(a) alone.
LcgModulus == 65537
RngSeed(key_int) == AbsMod(key_int, LcgModulus)
RngNext(state) == (75 * state + 74) % LcgModulus

Swap(x, i, j) == [x EXCEPT ![i] = x[j], ![j] = x[i]]

\* one pass of the loop body of random.shuffle: j = randbelow(i + 1);
\* x[i], x[j] = x[j], x[i]
ShuffleStep(r, i) ==
    LET next == RngNext(r.state)
        j    == next % (i + 1)
    IN [x |-> Swap(r.x, i + 1, j + 1), state |-> next]

\* the passes i = hi, hi - 1, .., lo of the loop, in that order (the range is
\* halved so that the depth of evaluation stays logarithmic)
RECURSIVE ShuffleFrom(_, _, _)
ShuffleFrom(r, hi, lo) ==
    IF hi < lo THEN r
    ELSE IF hi = lo THEN ShuffleStep(r, hi)
    ELSE LET mid == (hi + lo) \div 2
             upper == ShuffleFrom(r, hi, mid + 1)
         IN \* the test makes the upper half known before the lower half starts
            IF Len(upper.x) = 0 THEN upper ELSE ShuffleFrom(upper, mid, lo)

\* the generator after the n draws of a shuffle of n + 1 items
RECURSIVE RngSkip(_, _)
RngSkip(state, n) ==
    IF n <= 0 THEN state
    ELSE IF n = 1 THEN RngNext(state)
    ELSE LET half == RngSkip(state, n \div 2)
         IN \* the test makes the first half known before the second starts
            IF half < 0 THEN half ELSE RngSkip(half, n - (n \div 2))

\* random.shuffle(x): for i in reversed(range(1, len(x)))
Shuffle(x, seed) == ShuffleFrom([x |-> x, state |-> seed], Len(x) - 1, 1).x

\* list(range(a, b))
Range(a, b) == IF b <= a THEN <<>> ELSE AsSeq([i \in 1..(b - a) |-> a + i - 1])

\* generate_embedding_sequence shuffling only the data_length slots it needs
GenerateEmbeddingSequenceShort(key, data_length, cover_size, start_location) ==
    LET last == IF start_location + data_length < cover_size
                THEN start_location + data_length ELSE cover_size
    IN Shuffle(Range(start_location, last), RngSeed(KeyToInt(key)))

\* generate_embedding_sequence
GenerateEmbeddingSequence(key, data_length, cover_size, start_location) ==
    LET positions == Shuffle(Range(start_location, cover_size), RngSeed(KeyToInt(key)))
    IN Slice(positions, 0, data_length)

(***************************************************************************)
(* The stride generator as a state machine: one call of _stride_for and    *)
(* one call of get_embedding_positions on the same inputs                  *)
(***************************************************************************)
MaxTotal == 9
MaxSeed  == 9
StrideKeys == {DecStr(n) : n \in 0..MaxSeed} \cup {<<45>> \o DecStr(n) : n \in 1..3}
              \cup {KeyAbc, KeyKey1}

StrideInit ==
    /\ rng = 0
    /\ pc = "ready"
    /\ inp \in [codec: {"stride"}, key: StrideKeys, total: 0..MaxTotal,
                start: (-1)..(MaxTotal + 1), count: 0..(MaxTotal + 1)]
    /\ carrier = <<>>
    /\ enc = [stride |-> 0, iters |-> 0, done |-> FALSE]
    /\ dec = [positions |-> <<>>]

\* _stride_for(inp.total, key_to_int(inp.key))
CallStrideFor ==
    /\ pc = "ready"
    /\ inp.codec = "stride"
    /\ enc' = StrideFor(inp.total, KeyToInt(inp.key))
    /\ pc' = "strided"
    /\ UNCHANGED <<inp, carrier, dec, rng>>

\* get_embedding_positions(inp.key, inp.count, inp.total, lsb_count, inp.start)
CallGetEmbeddingPositions ==
    /\ pc = "strided"
    /\ inp.codec = "stride"
    /\ dec' = [positions |-> GetEmbeddingPositions(inp.key, inp.count, inp.total, inp.start)]
    /\ pc' = "positions"
    /\ UNCHANGED <<inp, carrier, enc, rng>>

StrideNext == CallStrideFor \/ CallGetEmbeddingPositions

SpecStride == StrideInit /\ [][StrideNext]_vars

(***************************************************************************)
(* Image codec (src/flaskr/modules/image_stego.py)                         *)
(***************************************************************************)
IMG_MAGIC == <<65, 67, 87, 49>>            \* b"ACW1"
PayloadBin == <<112, 97, 121, 108, 111, 97, 100, 46, 98, 105, 110>>   \* "payload.bin"

\* n.to_bytes(size, "little")
LE(n, size) == AsSeq([i \in 1..size |-> (n \div (256 ^ (i - 1))) % 256])

\* int.from_bytes(bytes, "little"), for values the model can hold
RECURSIVE FromLE(_)
FromLE(bytes) == IF Len(bytes) = 0 THEN 0 ELSE bytes[1] + 256 * FromLE(Tail(bytes))

Reverse(x) == AsSeq([i \in 1..Len(x) |-> x[Len(x) + 1 - i]])

\* os.path.basename returning the whole path
BasenameWholePath(name) == name

\* os.path.basename: what follows the last '/'
RECURSIVE Basename(_)
Basename(name) ==
    IF \A i \in 1..Len(name) : name[i] # 47 THEN name
    ELSE Basename(Tail(name))

\* _safe_name without os.path.basename
SafeNameNoBasename(name) ==
    LET base == Strip(name)
    IN IF Len(base) = 0 THEN PayloadBin ELSE base

\* _safe_name
SafeName(name) ==
    LET base == Strip(Basename(name))
    IN IF Len(base) = 0 THEN PayloadBin ELSE base

\* bytes.decode("utf-8", "ignore") on the names of the model: ASCII is
\* kept, a byte that starts no valid sequence is dropped
IsAscii(b) == b < 128
Utf8DecodeIgnore(bytes) == SelectSeq(bytes, IsAscii)

\* iter_bits_lsb: the bits of every byte, least significant bit first
IterBitsLsb(data) ==
    AsSeq([i \in 1..(8 * Len(data)) |-> BitAt(data[((i - 1) \div 8) + 1], (i - 1) % 8)])

\* pack_bits_lsb: every 8 bits make a byte, least significant bit first
PackBitsLsb(bits) ==
    LET bit(q) == IF q <= Len(bits) THEN bits[q] ELSE 0
    IN AsSeq([b \in 1..((Len(bits) + 7) \div 8) |->
            bit(8 * b - 7) + 2 * bit(8 * b - 6) + 4 * bit(8 * b - 5) + 8 * bit(8 * b - 4)
            + 16 * bit(8 * b - 3) + 32 * bit(8 * b - 2) + 64 * bit(8 * b - 1) + 128 * bit(8 * b)])

\* _parse_start_xy on "x,y": both coordinates clamped to the image
ParseStartXY(x, y, w, h) ==
    LET clamp(v, hi) == IF v < 0 THEN 0 ELSE IF v > hi THEN hi ELSE v
    IN <<clamp(x, w - 1), clamp(y, h - 1)>>

\* hashlib.sha256(f"ACW1|IMG|{w}x{h}|{key}".encode()).digest()[:8]
ImgSeedHead(w, h, key) ==
    CASE w = 4 /\ h = 1 /\ key = KeyAbc -> <<110, 206, 203, 47, 115, 240, 191, 136>>
      [] w = 4 /\ h = 1 /\ key = KeyABC -> <<105, 132, 193, 145, 97, 6, 93, 96>>
      [] w = 4 /\ h = 1 /\ key = KeyAbcSp -> <<61, 2, 113, 72, 156, 93, 111, 137>>
      [] w = 4 /\ h = 1 /\ key = KeyEmpty -> <<188, 82, 239, 23, 154, 29, 161, 204>>
      [] w = 4 /\ h = 1 /\ key = KeyBlank -> <<227, 193, 211, 122, 121, 175, 209, 217>>
      [] w = 4 /\ h = 2 /\ key = KeyAbc -> <<113, 248, 73, 96, 186, 17, 93, 154>>
      [] w = 4 /\ h = 2 /\ key = KeyABC -> <<173, 165, 79, 97, 22, 73, 41, 115>>
      [] w = 4 /\ h = 2 /\ key = KeyAbcSp -> <<43, 229, 103, 206, 152, 215, 22, 97>>
      [] w = 4 /\ h = 2 /\ key = KeyEmpty -> <<190, 254, 175, 44, 194, 70, 172, 184>>
      [] w = 4 /\ h = 2 /\ key = KeyBlank -> <<59, 110, 168, 9, 113, 20, 137, 35>>
      [] w = 4 /\ h = 3 /\ key = KeyAbc -> <<219, 85, 8, 143, 99, 15, 23, 53>>
      [] w = 4 /\ h = 3 /\ key = KeyABC -> <<118, 222, 191, 158, 116, 20, 38, 97>>
      [] w = 4 /\ h = 3 /\ key = KeyAbcSp -> <<227, 62, 176, 167, 225, 87, 173, 196>>
      [] w = 4 /\ h = 3 /\ key = KeyEmpty -> <<216, 101, 52, 146, 199, 165, 32, 98>>
      [] w = 4 /\ h = 3 /\ key = KeyBlank -> <<163, 54, 14, 95, 92, 130, 92, 199>>
      [] w = 4 /\ h = 4 /\ key = KeyAbc -> <<4, 56, 161, 183, 23, 133, 181, 44>>
      [] w = 4 /\ h = 4 /\ key = KeyABC -> <<195, 47, 250, 7, 144, 221, 106, 144>>
      [] w = 4 /\ h = 4 /\ key = KeyAbcSp -> <<200, 13, 83, 171, 187, 20, 138, 181>>
      [] w = 4 /\ h = 4 /\ key = KeyEmpty -> <<20, 31, 112, 159, 26, 34, 222, 49>>
      [] w = 4 /\ h = 4 /\ key = KeyBlank -> <<220, 49, 13, 118, 4, 95, 173, 177>>
      [] w = 4 /\ h = 5 /\ key = KeyAbc -> <<234, 105, 195, 206, 234, 224, 252, 154>>
      [] w = 4 /\ h = 5 /\ key = KeyABC -> <<225, 151, 154, 186, 14, 154, 89, 52>>
      [] w = 4 /\ h = 5 /\ key = KeyAbcSp -> <<145, 196, 164, 135, 182, 168, 230, 87>>
      [] w = 4 /\ h = 5 /\ key = KeyEmpty -> <<77, 54, 174, 157, 91, 58, 227, 26>>
      [] w = 4 /\ h = 5 /\ key = KeyBlank -> <<192, 161, 89, 34, 142, 92, 59, 226>>
      [] w = 4 /\ h = 6 /\ key = KeyAbc -> <<59, 46, 58, 13, 7, 39, 132, 181>>
      [] w = 4 /\ h = 6 /\ key = KeyABC -> <<237, 230, 7, 41, 197, 234, 251, 71>>
      [] w = 4 /\ h = 6 /\ key = KeyAbcSp -> <<38, 113, 254, 183, 34, 125, 127, 175>>
      [] w = 4 /\ h = 6 /\ key = KeyEmpty -> <<50, 19, 141, 212, 168, 167, 167, 16>>
      [] w = 4 /\ h = 6 /\ key = KeyBlank -> <<249, 100, 60, 192, 5, 222, 126, 96>>
      [] w = 4 /\ h = 7 /\ key = KeyAbc -> <<252, 36, 194, 131, 122, 226, 41, 244>>
      [] w = 4 /\ h = 7 /\ key = KeyABC -> <<218, 79, 90, 10, 202, 226, 67, 167>>
      [] w = 4 /\ h = 7 /\ key = KeyAbcSp -> <<144, 169, 103, 217, 79, 226, 127, 58>>
      [] w = 4 /\ h = 7 /\ key = KeyEmpty -> <<81, 8, 29, 223, 112, 106, 205, 103>>
      [] w = 4 /\ h = 7 /\ key = KeyBlank -> <<9, 113, 129, 254, 54, 157, 202, 81>>
      [] w = 4 /\ h = 8 /\ key = KeyAbc -> <<59, 154, 222, 112, 15, 234, 169, 215>>
      [] w = 4 /\ h = 8 /\ key = KeyABC -> <<241, 158, 112, 5, 140, 118, 16, 253>>
      [] w = 4 /\ h = 8 /\ key = KeyAbcSp -> <<131, 56, 151, 20, 253, 152, 26, 61>>
      [] w = 4 /\ h = 8 /\ key = KeyEmpty -> <<117, 82, 21, 211, 134, 225, 117, 129>>
      [] w = 4 /\ h = 8 /\ key = KeyBlank -> <<150, 165, 78, 164, 37, 75, 42, 121>>
      [] w = 4 /\ h = 9 /\ key = KeyAbc -> <<92, 163, 100, 19, 171, 48, 134, 158>>
      [] w = 4 /\ h = 9 /\ key = KeyABC -> <<169, 206, 18, 63, 18, 56, 205, 224>>
      [] w = 4 /\ h = 9 /\ key = KeyAbcSp -> <<8, 196, 43, 178, 35, 37, 138, 3>>
      [] w = 4 /\ h = 9 /\ key = KeyEmpty -> <<163, 93, 119, 213, 171, 16, 240, 93>>
      [] w = 4 /\ h = 9 /\ key = KeyBlank -> <<177, 53, 214, 12, 111, 25, 221, 96>>
      [] w = 4 /\ h = 10 /\ key = KeyAbc -> <<240, 157, 45, 146, 209, 75, 119, 10>>
      [] w = 4 /\ h = 10 /\ key = KeyABC -> <<117, 221, 111, 155, 101, 43, 135, 168>>
      [] w = 4 /\ h = 10 /\ key = KeyAbcSp -> <<145, 164, 159, 121, 41, 60, 68, 218>>
      [] w = 4 /\ h = 10 /\ key = KeyEmpty -> <<127, 6, 56, 41, 247, 8, 37, 162>>
      [] w = 4 /\ h = 10 /\ key = KeyBlank -> <<243, 90, 215, 188, 62, 14, 191, 232>>
      [] w = 4 /\ h = 11 /\ key = KeyAbc -> <<162, 120, 198, 147, 131, 135, 64, 184>>
      [] w = 4 /\ h = 11 /\ key = KeyABC -> <<226, 242, 181, 176, 104, 208, 178, 87>>
      [] w = 4 /\ h = 11 /\ key = KeyAbcSp -> <<193, 174, 46, 40, 100, 18, 185, 198>>
      [] w = 4 /\ h = 11 /\ key = KeyEmpty -> <<150, 55, 202, 255, 187, 123, 203, 57>>
      [] w = 4 /\ h = 11 /\ key = KeyBlank -> <<232, 149, 114, 68, 12, 38, 43, 103>>
      [] w = 4 /\ h = 12 /\ key = KeyAbc -> <<173, 95, 93, 192, 183, 82, 254, 233>>
      [] w = 4 /\ h = 12 /\ key = KeyABC -> <<191, 198, 50, 33, 81, 10, 204, 241>>
      [] w = 4 /\ h = 12 /\ key = KeyAbcSp -> <<240, 104, 220, 34, 223, 210, 240, 102>>
      [] w = 4 /\ h = 12 /\ key = KeyEmpty -> <<10, 174, 63, 48, 173, 231, 3, 187>>
      [] w = 4 /\ h = 12 /\ key = KeyBlank -> <<235, 151, 152, 58, 117, 197, 97, 36>>
      [] w = 4 /\ h = 13 /\ key = KeyAbc -> <<158, 20, 18, 154, 96, 223, 22, 158>>
      [] w = 4 /\ h = 13 /\ key = KeyABC -> <<231, 99, 78, 234, 28, 54, 233, 166>>
      [] w = 4 /\ h = 13 /\ key = KeyAbcSp -> <<64, 156, 100, 122, 106, 105, 65, 63>>
      [] w = 4 /\ h = 13 /\ key = KeyEmpty -> <<146, 239, 103, 130, 136, 177, 211, 246>>
      [] w = 4 /\ h = 13 /\ key = KeyBlank -> <<79, 47, 119, 177, 59, 66, 246, 195>>
      [] w = 4 /\ h = 14 /\ key = KeyAbc -> <<134, 139, 69, 163, 2, 128, 162, 188>>
      [] w = 4 /\ h = 14 /\ key = KeyABC -> <<112, 230, 69, 110, 218, 22, 176, 150>>
      [] w = 4 /\ h = 14 /\ key = KeyAbcSp -> <<66, 45, 234, 95, 153, 209, 89, 237>>
      [] w = 4 /\ h = 14 /\ key = KeyEmpty -> <<217, 254, 7, 155, 27, 132, 58, 200>>
      [] w = 4 /\ h = 14 /\ key = KeyBlank -> <<91, 104, 175, 204, 234, 26, 81, 230>>

\* _scattered_positions without the restriction to the suffix: every pixel
\* of the image is eligible
ScatteredPositionsAllPixels(total_carriers, start, key, w, h) ==
    LET n_pixels == IF w * h > 0 THEN w * h ELSE 0
        seed     == ModBE(Reverse(ImgSeedHead(w, h, key)), LcgModulus)
        eligible_pixels == Shuffle(Range(0, n_pixels), seed)
        out == AsSeq([i \in 1..(3 * Len(eligible_pixels)) |->
                         eligible_pixels[((i - 1) \div 3) + 1] * 3 + ((i - 1) % 3)])
    IN IF total_carriers <= 0 \/ n_pixels = 0 THEN <<>> ELSE out

\* _scattered_positions
ScatteredPositions(total_carriers, start, key, w, h) ==
    LET n_pixels    == IF w * h > 0 THEN w * h ELSE 0
        start_pixel == IF start \div 3 < 0 THEN 0 ELSE start \div 3
        seed        == ModBE(Reverse(ImgSeedHead(w, h, key)), LcgModulus)
        eligible_pixels == Shuffle(Range(start_pixel, n_pixels), seed)
        \* (base, base + 1, base + 2) for every pixel, in shuffled order
        out == AsSeq([i \in 1..(3 * Len(eligible_pixels)) |->
                         eligible_pixels[((i - 1) \div 3) + 1] * 3 + ((i - 1) % 3)])
        max_needed == total_carriers - start_pixel * 3
    IN IF total_carriers <= 0 \/ n_pixels = 0 \/ start_pixel >= n_pixels THEN <<>>
       ELSE Slice(out, 0, max_needed)

\* val = 0; for _ in range(k): val = (val << 1) | next(bits)
RECURSIVE GroupValue(_, _, _)
GroupValue(bits, from, k) ==
    IF k = 0 THEN 0 ELSE 2 * GroupValue(bits, from, k - 1) + bits[from + k - 1]

\* that pass assigning the group to the whole slot (no mask)
EmbedGroupNoMask(carrier0, positions, bits, k, g) ==
    IF g * k > Len(bits) THEN carrier0
    ELSE [carrier0 EXCEPT ![positions[g] + 1] = GroupValue(bits, (g - 1) * k + 1, k)]

\* one pass of the embedding loop of encode_image, for the g-th position: a
\* group that the bit iterator cannot fill raises StopIteration before the
\* slot is written and the loop ends, so this and every later pass write nothing
EmbedGroup(carrier0, positions, bits, k, g) ==
    IF g * k > Len(bits) THEN carrier0
    ELSE LET idx == positions[g]
             val == GroupValue(bits, (g - 1) * k + 1, k)
         IN [carrier0 EXCEPT ![idx + 1] = (@ - (@ % (2 ^ k))) + val]

\* the passes lo..hi of that loop (the range is halved so that the depth of
\* evaluation stays logarithmic)
RECURSIVE EmbedGroups(_, _, _, _, _, _)
EmbedGroups(carrier0, positions, bits, k, lo, hi) ==
    IF hi < lo THEN carrier0
    ELSE IF hi = lo THEN EmbedGroup(carrier0, positions, bits, k, lo)
    ELSE LET mid   == (hi + lo) \div 2
             lower == EmbedGroups(carrier0, positions, bits, k, lo, mid)
         IN \* the test makes the lower half known before the upper half starts
            IF Len(lower) = 0 THEN lower ELSE EmbedGroups(lower, positions, bits, k, mid + 1, hi)

\* MAGIC(4) | KEY_SIG(4) | NAME_LEN(2) | PAYLOAD_LEN(4) | NAME | payload
ImageBlob(payload, payload_path, key) ==
    LET key_sig    == SubSeq(Sha256Head(key), 1, 4)
        name_bytes == Slice(SafeName(payload_path), 0, 65535)
    IN IMG_MAGIC \o key_sig \o LE(Len(name_bytes), 2) \o LE(Len(payload), 4)
       \o name_bytes \o payload

EncFail(msg, data, start, needs, available) ==
    [ok |-> FALSE, err |-> msg, data |-> data, written |-> {}, start |-> start,
     needs |-> needs, available |-> available]

\* encode_image on a lossless cover (the saved stego image holds the carrier
\* bytes as written)
EncodeImage(cover, w, h, payload, payload_path, key, k, sx, sy) ==
    IF ~(1 <= k /\ k <= 8)
    THEN EncFail("LSB count must be between 1 and 8", cover, 0, 0, 0)
    ELSE LET total_carriers  == Len(cover)
             xy              == ParseStartXY(sx, sy, w, h)
             start           == (xy[2] * w + xy[1]) * 3
             blob            == ImageBlob(payload, payload_path, key)
             total_bits      == Len(blob) * 8
             carriers_needed == (total_bits + k - 1) \div k
             positions_full  == ScatteredPositions(total_carriers, start, key, w, h)
             available_from_start == (Len(positions_full) * k) \div 8
         IN IF carriers_needed > Len(positions_full)
            THEN EncFail("Payload too large for starting location", cover, start,
                         Len(blob), available_from_start)
            ELSE LET positions == Slice(positions_full, 0, carriers_needed)
                     bits      == IterBitsLsb(blob)
                 IN [ok |-> TRUE, err |-> "",
                     data |-> EmbedGroups(cover, positions, bits, k, 1, Len(positions)),
                     written |-> {positions[g] : g \in {q \in 1..Len(positions) : q * k <= Len(bits)}},
                     start |-> start, needs |-> Len(blob),
                     available |-> available_from_start]

\* a failure of decode_image swallowed: an empty payload is returned
ImgDecErrSwallowed(msg, rd, start) ==
    [ok |-> TRUE, err |-> "", payload |-> <<>>, name |-> PayloadBin, size |-> 0,
     read |-> rd, start |-> start]

ImgDecErr(msg, rd, start) ==
    [ok |-> FALSE, err |-> msg, payload |-> <<>>, name |-> <<>>, size |-> 0,
     read |-> rd, start |-> start]

\* decode_image. The bit stream is read lazily: a slot is read when the first
\* of its k bits is taken; taking a bit from the exhausted stream inside the
\* generator expression ends the call with RuntimeError.
DecodeImage(data, w, h, key, k, sx, sy) ==
    IF ~(1 <= k /\ k <= 8)
    THEN ImgDecErr("LSB count must be between 1 and 8", {}, 0)
    ELSE LET total_carriers == Len(data)
             xy        == ParseStartXY(sx, sy, w, h)
             start     == (xy[2] * w + xy[1]) * 3
             positions == ScatteredPositions(total_carriers, start, key, w, h)
             avail     == Len(positions) * k
             \* bit q of the stream: the bits of a slot from bit k-1 down to bit 0
             bit(q)    == BitAt(data[positions[((q - 1) \div k) + 1] + 1] % (2 ^ k),
                                (k - 1) - ((q - 1) % k))
             take(from, n) == PackBitsLsb(AsSeq([i \in 1..n |-> bit(from + i)]))
             readUpTo(nbits) == {positions[g] : g \in 1..((nbits + k - 1) \div k)}
             all       == {positions[g] : g \in 1..Len(positions)}
             exp_sig   == SubSeq(Sha256Head(key), 1, 4)
         IN IF avail < 32 THEN ImgDecErr("RuntimeError", all, start)
            ELSE IF Slice(take(0, 32), 0, 4) # IMG_MAGIC
            THEN ImgDecErr("Not a valid stego image for these parameters (MAGIC mismatch).",
                           readUpTo(32), start)
            ELSE IF avail < 64 THEN ImgDecErr("RuntimeError", all, start)
            ELSE IF Slice(take(32, 32), 0, 4) # exp_sig
            THEN ImgDecErr("Wrong key for this stego image.", readUpTo(64), start)
            ELSE IF avail < 112 THEN ImgDecErr("RuntimeError", all, start)
            ELSE LET hdr      == take(64, 48)
                     name_len == FromLE(Slice(hdr, 0, 2))
                     \* a length of 2^24 or more exceeds every carrier here
                     length   == IF hdr[6] # 0 THEN 16777216 ELSE FromLE(Slice(hdr, 2, 5))
                 IN IF ~(0 <= name_len /\ name_len <= 65535)
                    THEN ImgDecErr("Corrupted header (filename length).", readUpTo(112), start)
                    ELSE IF avail < 112 + 8 * name_len
                    THEN ImgDecErr("RuntimeError", all, start)
                    ELSE IF avail < 112 + 8 * name_len + 8 * length
                    THEN ImgDecErr("RuntimeError", all, start)
                    ELSE LET name_bytes == Slice(take(112, 8 * name_len), 0, name_len)
                             base  == Strip(Basename(Utf8DecodeIgnore(name_bytes)))
                             fname == IF Len(base) = 0 THEN PayloadBin ELSE base
                             nbits == 112 + 8 * name_len + 8 * length
                             payload == Slice(take(112 + 8 * name_len, 8 * length), 0, length)
                         IN [ok |-> TRUE, err |-> "", payload |-> payload, name |-> fname,
                             size |-> length, read |-> readUpTo(nbits), start |-> start]

\* Inputs of the image codec
ImgWidths    == {4}
ImgMaxH      == 11
ImgMaxStartX == 3
ImgMaxStartY == 2
ImageKeys    == {KeyAbc, KeyABC}
ImageNames   == {<<97>>, <<100, 47, 98, 32>>}        \* "a", "d/b "
ImageKinds   == {"zeros", "ones"}
ImageDepths  == 0..9

ImageInit ==
    /\ rng = 0
    /\ pc = "ready"
    /\ inp \in [codec : {"image"}, key : ImageKeys, w : ImgWidths, h : 1..ImgMaxH,
                kind : ImageKinds, payload : Payloads, name : ImageNames,
                k : ImageDepths, sx : {0, ImgMaxStartX}, sy : {0, ImgMaxStartY}]
    /\ carrier = CoverOf(inp.kind, 3 * inp.w * inp.h)
    /\ enc = NoEnc
    /\ dec = NoDec

\* encode_image(cover, payload, key, k, "sx,sy")
ImgEncode ==
    /\ pc = "ready"
    /\ inp.codec = "image"
    /\ LET r == EncodeImage(carrier, inp.w, inp.h, inp.payload, inp.name, inp.key,
                            inp.k, inp.sx, inp.sy)
       IN /\ enc' = r
          /\ carrier' = r.data
          /\ pc' = IF r.ok THEN "encoded" ELSE "encFailed"
    /\ UNCHANGED <<inp, dec, rng>>

\* decode_image(stego, key2, k, "sx,sy") on the stego file: the carrier
\* encode_image produced, or that carrier damaged
ImgDecode ==
    /\ pc \in {"encoded", "damaged"}
    /\ inp.codec = "image"
    /\ \E key2 \in ImageKeys :
          dec' = [key |-> key2] @@ DecodeImage(carrier, inp.w, inp.h, key2, inp.k, inp.sx, inp.sy)
    /\ pc' = IF pc = "encoded" THEN "decoded" ELSE "decodedDamaged"
    /\ UNCHANGED <<inp, carrier, enc, rng>>

\* The stego file is damaged between encode_image and decode_image: the slot
\* that holds the first bit of PAYLOAD_LEN (frame bit 80) has its k low bits
\* complemented.
ImgDamage ==
    /\ pc = "encoded"
    /\ inp.codec = "image"
    /\ LET positions == ScatteredPositions(Len(carrier), enc.start, inp.key, inp.w, inp.h)
           idx       == positions[(80 \div inp.k) + 1]
           low       == carrier[idx + 1] % (2 ^ inp.k)
       IN carrier' = [carrier EXCEPT ![idx + 1] = (@ - low) + ((2 ^ inp.k) - 1 - low)]
    /\ pc' = "damaged"
    /\ UNCHANGED <<inp, enc, dec, rng>>

ImageNext == ImgEncode \/ ImgDecode

SpecImage == ImageInit /\ [][ImageNext]_vars

(***************************************************************************)
(* Audio codec (src/flaskr/modules/audio_stego.py) on 16-bit PCM samples;  *)
(* a sample is held as its bit pattern, of which only bits 0..7 are used   *)
(***************************************************************************)
AUD_MAGIC    == <<83, 84, 71, 49>>          \* b"STG1"
ExtractedBin == <<101, 120, 116, 114, 97, 99, 116, 101, 100, 46, 98, 105, 110>>  \* "extracted.bin"
\* "c_stego_extracted.bin": the legacy output name for the cover "c.wav"
LegacyName   == <<99, 95, 115, 116, 101, 103, 111, 95>> \o ExtractedBin

\* utils.bytes_to_bits: format(byte, '08b'), most significant bit first
UtilsBytesToBits(data) ==
    AsSeq([i \in 1..(8 * Len(data)) |-> BitAt(data[((i - 1) \div 8) + 1], 7 - ((i - 1) % 8))])

\* utils.bits_to_bytes reading every byte least significant bit first
UtilsBitsToBytesLsbFirst(bits) ==
    LET bit(q) == IF q <= Len(bits) THEN bits[q] ELSE 0
    IN AsSeq([b \in 1..((Len(bits) + 7) \div 8) |->
            bit(8 * b - 7) + 2 * bit(8 * b - 6) + 4 * bit(8 * b - 5) + 8 * bit(8 * b - 4)
            + 16 * bit(8 * b - 3) + 32 * bit(8 * b - 2) + 64 * bit(8 * b - 1) + 128 * bit(8 * b)])

\* utils.bits_to_bytes: pad with '0' to a multiple of 8, int(bits, 2) per byte
UtilsBitsToBytes(bits) ==
    LET bit(q) == IF q <= Len(bits) THEN bits[q] ELSE 0
    IN AsSeq([b \in 1..((Len(bits) + 7) \div 8) |->
            128 * bit(8 * b - 7) + 64 * bit(8 * b - 6) + 32 * bit(8 * b - 5) + 16 * bit(8 * b - 4)
            + 8 * bit(8 * b - 3) + 4 * bit(8 * b - 2) + 2 * bit(8 * b - 1) + bit(8 * b)])

\* n.to_bytes(size, 'big')
BE(n, size) == Reverse(LE(n, size))

\* int.from_bytes(bytes, 'big'), for values the model can hold
FromBE(bytes) == FromLE(Reverse(bytes))

\* one pass of the embedding loop of _embed_bits_into_samples, for bit i
EmbedBit(samples, bits, positions, lsb_count, i) ==
    LET slot         == positions[i]
        sample_index == slot \div lsb_count
        bit_index    == slot % lsb_count
    IN [samples EXCEPT ![sample_index + 1] = SetBitTo(@, bit_index, bits[i])]

\* the passes lo..hi of that loop (the range is halved so that the depth of
\* evaluation stays logarithmic)
RECURSIVE EmbedLoop(_, _, _, _, _, _)
EmbedLoop(samples, bits, positions, lsb_count, lo, hi) ==
    IF hi < lo THEN samples
    ELSE IF hi = lo THEN EmbedBit(samples, bits, positions, lsb_count, lo)
    ELSE LET mid   == (hi + lo) \div 2
             lower == EmbedLoop(samples, bits, positions, lsb_count, lo, mid)
         IN \* the test makes the lower half known before the upper half starts
            IF Len(lower) = 0 THEN lower ELSE EmbedLoop(lower, bits, positions, lsb_count, mid + 1, hi)

\* a failure raised after the first bit was embedded in the first sample
AudFailAfterWrite(msg, samples) ==
    [ok |-> FALSE, err |-> msg,
     data |-> [samples EXCEPT ![1] = SetBitTo(@, 0, 1 - BitAt(@, 0))],
     written |-> {}, start |-> 0, total |-> 0]

AudFail(msg, samples) ==
    [ok |-> FALSE, err |-> msg, data |-> samples, written |-> {}, start |-> 0, total |-> 0]

\* _embed_bits_into_samples with the capacity comparison off by one (>= for >)
EmbedBitsIntoSamplesOffByOne(samples, bits, lsb_count, key, start_location) ==
    IF lsb_count < 1 \/ lsb_count > 8
    THEN AudFail("lsb_count must be between 1 and 8", samples)
    ELSE LET total_slots == Len(samples) * lsb_count
             total_bits  == Len(bits)
             start       == IF start_location < 0 THEN 0 ELSE start_location
         IN IF start + total_bits >= total_slots
            THEN AudFail("Payload too large for selected LSBs and start location", samples)
            ELSE LET positions == GenerateEmbeddingSequence(key, total_bits, total_slots, start)
                 IN [ok |-> TRUE, err |-> "",
                     data |-> EmbedLoop(samples, bits, positions, lsb_count, 1, Len(bits)),
                     written |-> {positions[i] : i \in 1..Len(positions)},
                     start |-> start, total |-> total_slots]

\* _embed_bits_into_samples
EmbedBitsIntoSamples(samples, bits, lsb_count, key, start_location) ==
    IF lsb_count < 1 \/ lsb_count > 8
    THEN AudFail("lsb_count must be between 1 and 8", samples)
    ELSE LET total_slots == Len(samples) * lsb_count
             total_bits  == Len(bits)
             start       == IF start_location < 0 THEN 0 ELSE start_location
         IN IF start + total_bits > total_slots
            THEN AudFail("Payload too large for selected LSBs and start location", samples)
            ELSE LET positions == GenerateEmbeddingSequence(key, total_bits, total_slots, start)
                 IN [ok |-> TRUE, err |-> "",
                     data |-> EmbedLoop(samples, bits, positions, lsb_count, 1, Len(bits)),
                     written |-> {positions[i] : i \in 1..Len(positions)},
                     start |-> start, total |-> total_slots]

\* _extract_bits_from_samples: the bits, and the slots they were read from
ExtractBitsFromSamples(samples, num_bits, lsb_count, key, start_location) ==
    IF lsb_count < 1 \/ lsb_count > 8
    THEN [ok |-> FALSE, err |-> "lsb_count must be between 1 and 8", bits |-> <<>>, read |-> {}]
    ELSE LET total_slots == Len(samples) * lsb_count
             start       == IF start_location < 0 THEN 0 ELSE start_location
         IN IF start + num_bits > total_slots
            THEN [ok |-> FALSE, err |-> "Requested extraction exceeds available capacity",
                  bits |-> <<>>, read |-> {}]
            ELSE LET positions == GenerateEmbeddingSequence(key, num_bits, total_slots, start)
                 IN [ok |-> TRUE, err |-> "",
                     bits |-> AsSeq([i \in 1..Len(positions) |->
                                 BitAt(samples[(positions[i] \div lsb_count) + 1],
                                       positions[i] % lsb_count)]),
                     read |-> {positions[i] : i \in 1..Len(positions)}]

\* header + payload of encode_audio
AudioFrame(payload, payload_path) ==
    LET name_bytes == Slice(Basename(payload_path), 0, 65535)
    IN AUD_MAGIC \o <<1>> \o BE(Len(name_bytes), 2) \o BE(Len(payload), 4)
       \o name_bytes \o payload

\* encode_audio
EncodeAudio(samples, payload, payload_path, key, lsb_count, start_location) ==
    IF ~ValidKey(key) THEN AudFail("Invalid key format; expecting numeric key", samples)
    ELSE IF Len(payload) <= 0 THEN AudFail("Payload is empty", samples)
    ELSE EmbedBitsIntoSamples(samples, UtilsBytesToBits(AudioFrame(payload, payload_path)),
                              lsb_count, key, start_location)

AudDecErr(msg, rd) ==
    [ok |-> FALSE, err |-> msg, payload |-> <<>>, name |-> <<>>, size |-> 0,
     read |-> rd, version |-> -1]

\* int(''.join(bits), 2) of the 32 legacy length bits; a length of 2^16 or
\* more exceeds every carrier here
LegacyLength(bits) ==
    IF \E i \in 1..16 : bits[i] = 1 THEN 65536
    ELSE FromBE(UtilsBitsToBytes(SubSeq(bits, 17, 32)))

\* the legacy branch of decode_audio
DecodeAudioLegacy(samples, key, lsb_count, start, total_slots, rd) ==
    IF 32 > total_slots - start
    THEN AudDecErr("Decoding failed: insufficient capacity at start position (check start_location)", rd)
    ELSE LET hb == ExtractBitsFromSamples(samples, 32, lsb_count, key, start)
         IN IF ~hb.ok THEN AudDecErr(hb.err, rd)
            ELSE LET payload_len == LegacyLength(hb.bits)
                     total_bits  == 32 + payload_len * 8
                 IN IF total_bits > total_slots - start
                    THEN AudDecErr("Decoding failed: legacy length beyond capacity (check key/lsb/start)",
                                   rd \cup hb.read)
                    ELSE LET ab == ExtractBitsFromSamples(samples, total_bits, lsb_count, key, start)
                         IN IF ~ab.ok THEN AudDecErr(ab.err, rd \cup hb.read)
                            ELSE [ok |-> TRUE, err |-> "",
                                  payload |-> Slice(UtilsBitsToBytes(Slice(ab.bits, 32, Len(ab.bits))),
                                                    0, payload_len),
                                  name |-> LegacyName, size |-> payload_len,
                                  read |-> rd \cup hb.read \cup ab.read, version |-> 0]

\* decode_audio
DecodeAudio(samples, key, lsb_count, start_location) ==
    IF ~ValidKey(key) THEN AudDecErr("Invalid key format; expecting numeric key", {})
    ELSE LET total_slots == Len(samples) * lsb_count
             start       == IF start_location < 0 THEN 0 ELSE start_location
         IN IF 88 > total_slots - start
            THEN AudDecErr("Decoding failed: insufficient capacity at start position (check start_location)", {})
            ELSE LET hb == ExtractBitsFromSamples(samples, 88, lsb_count, key, start)
                 IN IF ~hb.ok THEN AudDecErr(hb.err, {})
                    ELSE LET hdr == UtilsBitsToBytes(hb.bits)
                         IN IF Len(hdr) >= 11 /\ Slice(hdr, 0, 4) = AUD_MAGIC
                            THEN LET ver         == hdr[5]
                                     name_len    == FromBE(Slice(hdr, 5, 7))
                                     \* a length of 2^16 or more exceeds every carrier here
                                     payload_len == IF hdr[8] # 0 \/ hdr[9] # 0 THEN 65536
                                                    ELSE FromBE(Slice(hdr, 9, 11))
                                     total_bits  == (11 + name_len + payload_len) * 8
                                 IN IF name_len < 0 \/ payload_len < 0 \/ name_len > 65535
                                    THEN AudDecErr("Decoding failed: invalid header (check key/lsb/start)", hb.read)
                                    ELSE IF total_bits > total_slots - start
                                    THEN AudDecErr("Decoding failed: header implies size beyond capacity (check key/lsb/start)", hb.read)
                                    ELSE LET ab == ExtractBitsFromSamples(samples, total_bits, lsb_count, key, start)
                                             all_bytes == UtilsBitsToBytes(ab.bits)
                                             name0 == Utf8DecodeIgnore(Slice(all_bytes, 11, 11 + name_len))
                                             name1 == Basename(IF Len(name0) = 0 THEN ExtractedBin ELSE name0)
                                         IN [ok |-> TRUE, err |-> "",
                                             payload |-> Slice(all_bytes, 11 + name_len, 11 + name_len + payload_len),
                                             name |-> IF Len(name1) = 0 THEN ExtractedBin ELSE name1,
                                             size |-> payload_len,
                                             read |-> hb.read \cup ab.read, version |-> ver]
                            ELSE DecodeAudioLegacy(samples, key, lsb_count, start, total_slots, hb.read)

\* Inputs of the audio codec
AudMaxExtra == 2
AudMaxStart == 2
AudioKeys   == {Key5, Key05, KeyAbc, KeyBlank}
AudioNames  == {<<100, 47, 98>>}                      \* "d/b"
AudioKinds  == {"zeros", "ones"}
AudioDepths == 0..9
\* bits of the longest frame of the model: 11 header bytes, 1 name byte, payload
AudFrameBits == 8 * (12 + MaxPayloadLen)
\* sample counts around the capacity boundary of that frame
AudSamples(lsb, extra) == (AudFrameBits \div (IF lsb < 1 THEN 1 ELSE lsb)) + extra

AudioInit ==
    /\ rng = 0
    /\ pc = "ready"
    /\ inp \in [codec : {"audio"}, key : AudioKeys, lsb : AudioDepths, extra : 0..AudMaxExtra,
                kind : AudioKinds, payload : Payloads, name : AudioNames,
                start : -1..AudMaxStart]
    /\ carrier = CoverOf(inp.kind, AudSamples(inp.lsb, inp.extra))
    /\ enc = NoEnc
    /\ dec = NoDec

\* encode_audio(cover, payload, key, lsb_count, start)
AudEncode ==
    /\ pc = "ready"
    /\ inp.codec = "audio"
    /\ LET r == EncodeAudio(carrier, inp.payload, inp.name, inp.key, inp.lsb, inp.start)
       IN /\ enc' = r
          /\ carrier' = r.data
          /\ pc' = IF r.ok THEN "encoded" ELSE "encFailed"
          \* generate_embedding_sequence leaves the shared generator where
          \* its shuffle ended
          /\ rng' = IF r.ok THEN RngSkip(RngSeed(KeyToInt(inp.key)), r.total - r.start - 1)
                    ELSE rng
    /\ UNCHANGED <<inp, dec>>

\* decode_audio(stego, key2, lsb_count, start) on the samples encode_audio wrote
AudDecode ==
    /\ pc = "encoded"
    /\ inp.codec = "audio"
    /\ \E key2 \in AudioKeys :
          /\ dec' = [key |-> key2] @@ DecodeAudio(carrier, key2, inp.lsb, inp.start)
          \* every extraction shuffles the same range under the same seed
          /\ rng' = IF dec'.read # {}
                    THEN RngSkip(RngSeed(KeyToInt(key2)),
                                 Len(carrier) * inp.lsb - (IF inp.start < 0 THEN 0 ELSE inp.start) - 1)
                    ELSE rng
    /\ pc' = "decoded"
    /\ UNCHANGED <<inp, carrier, enc>>

AudioNext == AudEncode \/ AudDecode

SpecAudio == AudioInit /\ [][AudioNext]_vars

\* Both codecs of the web application: an image or an audio cover
CodecsInit == ImageInit \/ AudioInit

CodecsNext == ImgEncode \/ ImgDecode \/ AudEncode \/ AudDecode

SpecCodecs == CodecsInit /\ [][CodecsNext]_vars

\* Every codec of the repository: the simple codec, the image codec (whose
\* stego file may be damaged before it is decoded) or the audio codec, on one
\* cover
AllInit == SimpleInit \/ ImageInit \/ AudioInit

AllNext ==
    LSBEncode \/ LSBDecode \/ ImgEncode \/ ImgDamage \/ ImgDecode \/ AudEncode \/ AudDecode

SpecAll == AllInit /\ [][AllNext]_vars

\* The three decoders on carriers made from the all-zero covers, the stego
\* image possibly damaged between encode_image and decode_image.
DecodersInit ==
    \/ SimpleInit
    \/ (ImageInit /\ inp.kind = "zeros" /\ inp.name = <<97>>)
    \/ (AudioInit /\ inp.kind = "zeros")

SpecDecoders == DecodersInit /\ [][AllNext]_vars

(***************************************************************************)
(* Two encode_audio calls in two threads of one process, each on samples   *)
(* of its own. generate_embedding_sequence seeds and shuffles with the     *)
(* generator of the random module, which the threads share. A call is      *)
(* three steps: the checks and random.seed, random.shuffle, the embedding  *)
(* loop. Thread switches inside random.shuffle are left out.               *)
(***************************************************************************)
Calls == {1, 2}
ConDepths == {1, 8}
ConCallInputs == [key : AudioKeys, lsb : ConDepths, payload : Payloads, name : AudioNames]

\* the cover of a call: samples for the longest frame at its bit depth
ConCover(in) == CoverOf("zeros", AudSamples(in.lsb, 0))

\* the frame bits a call embeds
ConBits(in) == UtilsBytesToBits(AudioFrame(in.payload, in.name))

ConInit ==
    /\ rng = 0
    /\ pc = <<"ready", "ready">>
    /\ inp \in [codec : {"audio"}, calls : ConCallInputs \X ConCallInputs]
    /\ carrier = <<ConCover(inp.calls[1]), ConCover(inp.calls[2])>>
    /\ enc = <<[ok |-> FALSE, err |-> "", positions |-> <<>>],
               [ok |-> FALSE, err |-> "", positions |-> <<>>]>>
    /\ dec = NoDec

ConFail(c, msg) ==
    /\ pc' = [pc EXCEPT ![c] = "failed"]
    /\ enc' = [enc EXCEPT ![c] = [ok |-> FALSE, err |-> msg, positions |-> <<>>]]
    /\ UNCHANGED rng

\* encode_audio up to random.seed(key_to_int(key)) in generate_embedding_sequence
ConSeed(c) ==
    /\ pc[c] = "ready"
    /\ LET in          == inp.calls[c]
           total_slots == Len(carrier[c]) * in.lsb
       IN IF ~ValidKey(in.key) THEN ConFail(c, "Invalid key format; expecting numeric key")
          ELSE IF Len(in.payload) <= 0 THEN ConFail(c, "Payload is empty")
          ELSE IF in.lsb < 1 \/ in.lsb > 8 THEN ConFail(c, "lsb_count must be between 1 and 8")
          ELSE IF Len(ConBits(in)) > total_slots
          THEN ConFail(c, "Payload too large for selected LSBs and start location")
          ELSE /\ rng' = RngSeed(KeyToInt(in.key))
               /\ pc' = [pc EXCEPT ![c] = "seeded"]
               /\ UNCHANGED enc
    /\ UNCHANGED <<inp, carrier, dec>>

\* positions = list(range(start_location, cover_size)); random.shuffle(positions);
\* return positions[:data_length]
ConShuffle(c) ==
    /\ pc[c] = "seeded"
    /\ LET in          == inp.calls[c]
           total_slots == Len(carrier[c]) * in.lsb
           r           == ShuffleFrom([x |-> Range(0, total_slots), state |-> rng],
                                      total_slots - 1, 1)
       IN /\ enc' = [enc EXCEPT ![c] = [ok |-> TRUE, err |-> "",
                                        positions |-> Slice(r.x, 0, Len(ConBits(in)))]]
          /\ rng' = r.state
    /\ pc' = [pc EXCEPT ![c] = "shuffled"]
    /\ UNCHANGED <<inp, carrier, dec>>

\* the embedding loop of _embed_bits_into_samples on the call's own samples
ConEmbed(c) ==
    /\ pc[c] = "shuffled"
    /\ LET in   == inp.calls[c]
           bits == ConBits(in)
       IN carrier' = [carrier EXCEPT ![c] =
                         EmbedLoop(carrier[c], bits, enc[c].positions, in.lsb, 1, Len(bits))]
    /\ pc' = [pc EXCEPT ![c] = "done"]
    /\ UNCHANGED <<inp, enc, dec, rng>>

ConNext == \E c \in Calls : ConSeed(c) \/ ConShuffle(c) \/ ConEmbed(c)

SpecConcurrent == ConInit /\ [][ConNext]_vars

(***************************************************************************)
(* Every codec called with a key that is empty after trimming              *)
(***************************************************************************)
BlankKeys == {KeyEmpty, KeyBlank}

BlankKeyInit ==
    /\ rng = 0
    /\ pc = "ready"
    /\ \/ inp \in [codec: {"simple"}, key: BlankKeys, coverLen: CoverLens, kind: {"zeros"},
                   payload: Payloads, ptype: PayloadTypes]
       \/ inp \in [codec : {"image"}, key : BlankKeys, w : ImgWidths, h : 1..ImgMaxH,
                   kind : {"zeros"}, payload : Payloads, name : ImageNames,
                   k : ImageDepths, sx : {0, ImgMaxStartX}, sy : {0, ImgMaxStartY}]
       \/ inp \in [codec : {"audio"}, key : BlankKeys, lsb : AudioDepths, extra : 0..AudMaxExtra,
                   kind : {"zeros"}, payload : Payloads, name : AudioNames,
                   start : -1..AudMaxStart]
    /\ carrier = CASE inp.codec = "simple" -> CoverOf(inp.kind, inp.coverLen)
                   [] inp.codec = "image"  -> CoverOf(inp.kind, 3 * inp.w * inp.h)
                   [] inp.codec = "audio"  -> CoverOf(inp.kind, AudSamples(inp.lsb, inp.extra))
    /\ enc = NoEnc
    /\ dec = NoDec

\* what the decoder of the codec in use returns under the encoding key
DecodeUnderEncodingKey ==
    CASE inp.codec = "simple" -> SimpleDecode(inp.key, carrier)
      [] inp.codec = "image"  -> DecodeImage(carrier, inp.w, inp.h, inp.key, inp.k, inp.sx, inp.sy)
      [] inp.codec = "audio"  -> DecodeAudio(carrier, inp.key, inp.lsb, inp.start)

\* the decoder called with the key the encoder was called with; decode_audio
\* is left to AudDecode
DecodeWithEncodingKey ==
    /\ pc = "encoded"
    /\ inp.codec \in {"simple", "image"}
    /\ dec' = [key |-> inp.key] @@ DecodeUnderEncodingKey
    /\ pc' = "decoded"
    /\ UNCHANGED <<inp, carrier, enc, rng>>

BlankKeyNext == LSBEncode \/ ImgEncode \/ AudEncode \/ DecodeWithEncodingKey

SpecBlankKey == BlankKeyInit /\ [][BlankKeyNext]_vars

(***************************************************************************)
(* The image and audio decoders called with a bit depth outside 1..8 on a  *)
(* stego carrier their encoder produced                                    *)
(***************************************************************************)
BadDepths == {-1, 0, 9}

BitDepthInit ==
    \/ (ImageInit /\ inp.kind = "zeros" /\ inp.name = <<97>>)
    \/ (AudioInit /\ inp.kind = "zeros")

\* decode_image(stego, key, k2, "sx,sy") with the encoding key
ImgDecodeDepth ==
    /\ pc = "encoded"
    /\ inp.codec = "image"
    /\ \E k2 \in BadDepths :
          dec' = [key |-> inp.key, k |-> k2]
                 @@ DecodeImage(carrier, inp.w, inp.h, inp.key, k2, inp.sx, inp.sy)
    /\ pc' = "decoded"
    /\ UNCHANGED <<inp, carrier, enc, rng>>

\* decode_audio(stego, key, k2, start) with the encoding key
AudDecodeDepth ==
    /\ pc = "encoded"
    /\ inp.codec = "audio"
    /\ \E k2 \in BadDepths :
          /\ dec' = [key |-> inp.key, k |-> k2] @@ DecodeAudio(carrier, inp.key, k2, inp.start)
          /\ rng' = IF dec'.read # {}
                    THEN RngSkip(RngSeed(KeyToInt(inp.key)),
                                 Len(carrier) * k2 - (IF inp.start < 0 THEN 0 ELSE inp.start) - 1)
                    ELSE rng
    /\ pc' = "decoded"
    /\ UNCHANGED <<inp, carrier, enc>>

BitDepthNext == ImgEncode \/ AudEncode \/ ImgDecodeDepth \/ AudDecodeDepth

SpecBitDepth == BitDepthInit /\ [][BitDepthNext]_vars

(***************************************************************************)
(* The NAME encode_image frames, for payload paths over a small alphabet   *)
(***************************************************************************)
MaxNameLen == 4
NameChars == {32, 46, 47, 97}                 \* ' ', '.', '/', 'a'
PayloadPaths == UNION {[1..n -> NameChars] : n \in 0..MaxNameLen}

NameInit ==
    /\ rng = 0
    /\ pc = "ready"
    /\ inp \in [codec : {"name"}, name : PayloadPaths, key : ImageKeys, payload : Payloads]
    /\ carrier = <<>>
    /\ enc = NoEnc
    /\ dec = NoDec

\* the header and blob of encode_image; NAME is the NAME_LEN bytes after the
\* 14 fixed header bytes
FrameName ==
    /\ pc = "ready"
    /\ inp.codec = "name"
    /\ LET blob     == ImageBlob(inp.payload, inp.name, inp.key)
           name_len == FromLE(Slice(blob, 8, 10))
       IN enc' = [ok |-> TRUE, err |-> "", blob |-> blob,
                  name |-> Slice(blob, 14, 14 + name_len)]
    /\ pc' = "framed"
    /\ UNCHANGED <<inp, carrier, dec, rng>>

NameNext == FrameName

SpecNames == NameInit /\ [][NameNext]_vars

(***************************************************************************)
(* key_to_int on numeric, signed, padded and alphabetic keys               *)
(***************************************************************************)
MaxKeyNum == 40
NumericKeys ==
    {DecStr(n) : n \in 0..MaxKeyNum} \cup {<<45>> \o DecStr(n) : n \in 0..MaxKeyNum}
    \cup {<<32>> \o DecStr(n) \o <<32>> : n \in 0..MaxKeyNum}
    \cup {<<48>> \o DecStr(n) : n \in 0..MaxKeyNum}
DerivedKeys ==
    NumericKeys \cup {KeyAbc, KeyABC, KeyAbcSp, KeyKey1, KeyPlus5, KeyMinMin5, KeyEmpty, KeyBlank}

KeysInit ==
    /\ rng = 0
    /\ pc = "ready"
    /\ inp \in [codec : {"key"}, key : DerivedKeys]
    /\ carrier = <<>>
    /\ enc = NoEnc
    /\ dec = NoDec

\* key_to_int(inp.key)
CallKeyToInt ==
    /\ pc = "ready"
    /\ inp.codec = "key"
    /\ enc' = [ok |-> TRUE, err |-> "", value |-> KeyToInt(inp.key)]
    /\ pc' = "derived"
    /\ UNCHANGED <<inp, carrier, dec, rng>>

KeysNext == CallKeyToInt

SpecKeys == KeysInit /\ [][KeysNext]_vars

(***************************************************************************)
(* _bytes_to_bits and _bits_to_bytes of the simple codec on byte strings   *)
(***************************************************************************)
MaxMsgLen == 2
MsgByteValues == {0, 1, 2, 65, 127, 128, 170, 254, 255}
Messages ==
    {<<b>> : b \in 0..255} \cup UNION {[1..n -> MsgByteValues] : n \in 0..MaxMsgLen}

BitsInit ==
    /\ rng = 0
    /\ pc = "ready"
    /\ inp \in [codec : {"bits"}, msg : Messages]
    /\ carrier = <<>>
    /\ enc = NoEnc
    /\ dec = NoDec

\* bits = _bytes_to_bits(m)
CallBytesToBits ==
    /\ pc = "ready"
    /\ inp.codec = "bits"
    /\ enc' = [ok |-> TRUE, err |-> "", bits |-> BytesToBits(inp.msg)]
    /\ pc' = "bits"
    /\ UNCHANGED <<inp, carrier, dec, rng>>

\* _bits_to_bytes(bits)
CallBitsToBytes ==
    /\ pc = "bits"
    /\ inp.codec = "bits"
    /\ dec' = [ok |-> TRUE, err |-> "", bytes |-> BitsToBytes(enc.bits)]
    /\ pc' = "bytes"
    /\ UNCHANGED <<inp, carrier, enc, rng>>

BitsNext == CallBytesToBits \/ CallBitsToBytes

SpecBits == BitsInit /\ [][BitsNext]_vars

(***************************************************************************)
(* KeyManager: the bit permutation and permute_byte_bits                   *)
(* (src/key_manager.py)                                                    *)
(***************************************************************************)
\* permutation_seed & 0x7fffffff. permutation_seed is the 32-bit big-endian
\* value of key_hash[4:8]; its top bit takes part neither in (seed + i) % 8
\* nor in the product masked with 0x7fffffff.
PermutationSeed31(key) ==
    LET h == KeyHash(key)
    IN (h[5] % 128) * 16777216 + h[6] * 65536 + h[7] * 256 + h[8]

\* (seed * 1103515245 + 12345) & 0x7fffffff on 16-bit limbs, so that no
\* intermediate value needs more than 31 bits
LcgStep(seed) ==
    LET hi    == (seed \div 65536) % 32768
        lo    == seed % 65536
        p     == lo * 20077                        \* 1103515245 = 16838 * 2^16 + 20077
        cross == (hi * 20077 + lo * 16838) % 32768
        low   == (p % 65536) + 12345
        high  == ((p \div 65536) + cross + (low \div 65536)) % 32768
    IN high * 65536 + (low % 65536)

\* the loop of _generate_bit_permutation from pass i on (i = 0..7)
RECURSIVE PermutationLoop(_, _, _)
PermutationLoop(bits, seed, i) ==
    IF i >= 8 THEN bits
    ELSE LET j == (seed + i) % 8
         IN PermutationLoop(Swap(bits, i + 1, j + 1), LcgStep(seed), i + 1)

\* _generate_bit_permutation: bits[p + 1] is the entry at index p
GenerateBitPermutation(key) ==
    PermutationLoop(<<0, 1, 2, 3, 4, 5, 6, 7>>, PermutationSeed31(key), 0)

\* permute_byte_bits using the permutation itself when reverse is set
PermuteByteBitsNoInverse(perm, byte_value, reverse) ==
    LET moved == {perm[i + 1] : i \in {b \in 0..7 : BitAt(byte_value, b) = 1}}
    IN (IF 0 \in moved THEN 1 ELSE 0) + (IF 1 \in moved THEN 2 ELSE 0)
       + (IF 2 \in moved THEN 4 ELSE 0) + (IF 3 \in moved THEN 8 ELSE 0)
       + (IF 4 \in moved THEN 16 ELSE 0) + (IF 5 \in moved THEN 32 ELSE 0)
       + (IF 6 \in moved THEN 64 ELSE 0) + (IF 7 \in moved THEN 128 ELSE 0)

\* permute_byte_bits: bit i of the byte goes to bit perm[i]; with reverse the
\* inverse table (reverse_perm[pos] = i for every i, pos = perm[i]) is used
PermuteByteBits(perm, byte_value, reverse) ==
    LET table == IF reverse
                 THEN AsSeq([p \in 1..8 |-> (CHOOSE i \in 1..8 :
                                 /\ perm[i] = p - 1
                                 /\ \A i2 \in (i + 1)..8 : perm[i2] # p - 1) - 1])
                 ELSE perm
        moved == {table[i + 1] : i \in {b \in 0..7 : BitAt(byte_value, b) = 1}}
    IN (IF 0 \in moved THEN 1 ELSE 0) + (IF 1 \in moved THEN 2 ELSE 0)
       + (IF 2 \in moved THEN 4 ELSE 0) + (IF 3 \in moved THEN 8 ELSE 0)
       + (IF 4 \in moved THEN 16 ELSE 0) + (IF 5 \in moved THEN 32 ELSE 0)
       + (IF 6 \in moved THEN 64 ELSE 0) + (IF 7 \in moved THEN 128 ELSE 0)

PermKeys == {KeyAbc, KeyABC, KeyAbcSp, KeyKey1, Key5, Key05, KeyMinus5, KeyPlus5,
             KeyMinMin5, KeyEmpty, KeyBlank}

PermInit ==
    /\ rng = 0
    /\ pc = "ready"
    /\ inp \in [codec : {"perm"}, key : PermKeys, byte : 0..255]
    /\ carrier = <<>>
    /\ enc = NoEnc
    /\ dec = NoDec

\* KeyManager(inp.key).permute_byte_bits(inp.byte)
CallPermute ==
    /\ pc = "ready"
    /\ inp.codec = "perm"
    /\ LET perm == GenerateBitPermutation(inp.key)
       IN enc' = [ok |-> TRUE, err |-> "", perm |-> perm,
                  value |-> PermuteByteBits(perm, inp.byte, FALSE)]
    /\ pc' = "permuted"
    /\ UNCHANGED <<inp, carrier, dec, rng>>

\* permute_byte_bits(enc.value, reverse=True) of the same KeyManager
CallPermuteReverse ==
    /\ pc = "permuted"
    /\ inp.codec = "perm"
    /\ dec' = [ok |-> TRUE, err |-> "", value |-> PermuteByteBits(enc.perm, enc.value, TRUE)]
    /\ pc' = "restored"
    /\ UNCHANGED <<inp, carrier, enc, rng>>

PermNext == CallPermute \/ CallPermuteReverse

SpecPerm == PermInit /\ [][PermNext]_vars

(***************************************************************************)
(* The two position generators asked for n and then for m >= n positions   *)
(* with the same key, start and carrier size                               *)
(***************************************************************************)
MaxPrefixSize == 6
MaxPrefixStart == 2
PrefixKeys == {Key5, KeyMinus5, KeyAbc}
\* small carriers, and the slot counts around the longest audio frame
PrefixSizes == (0..MaxPrefixSize) \cup {AudFrameBits, AudFrameBits + 2}
\* small lengths, the 88 header bits of decode_audio and the longest frame
PrefixLens == (0..(MaxPrefixSize + 1)) \cup {88, AudFrameBits}

PrefixInit ==
    /\ rng = 0
    /\ pc = "ready"
    /\ inp \in {r \in [codec : {"prefix"}, gen : {"shuffle", "stride"}, key : PrefixKeys,
                       size : PrefixSizes, start : 0..MaxPrefixStart,
                       n : PrefixLens, m : PrefixLens] : r.n <= r.m}
    /\ carrier = <<>>
    /\ enc = NoEnc
    /\ dec = NoDec

\* the generator in use, asked for count positions
PositionsOf(count) ==
    IF inp.gen = "shuffle"
    THEN GenerateEmbeddingSequence(inp.key, count, inp.size, inp.start)
    ELSE GetEmbeddingPositions(inp.key, count, inp.size, inp.start)

\* the generator of `random` after the call (generate_embedding_sequence
\* seeds and shuffles it; get_embedding_positions does not use it)
RngAfterPositions ==
    IF inp.gen = "shuffle"
    THEN RngSkip(RngSeed(KeyToInt(inp.key)), inp.size - inp.start - 1)
    ELSE rng

\* generate_embedding_sequence / get_embedding_positions for n positions
CallPositionsShort ==
    /\ pc = "ready"
    /\ inp.codec = "prefix"
    /\ enc' = [ok |-> TRUE, err |-> "", seq |-> PositionsOf(inp.n)]
    /\ rng' = RngAfterPositions
    /\ pc' = "short"
    /\ UNCHANGED <<inp, carrier, dec>>

\* the same call for m positions
CallPositionsLong ==
    /\ pc = "short"
    /\ inp.codec = "prefix"
    /\ dec' = [ok |-> TRUE, err |-> "", seq |-> PositionsOf(inp.m)]
    /\ rng' = RngAfterPositions
    /\ pc' = "long"
    /\ UNCHANGED <<inp, carrier, enc>>

PrefixNext == CallPositionsShort \/ CallPositionsLong

SpecPrefix == PrefixInit /\ [][PrefixNext]_vars

(***************************************************************************)
(* The decoders on stego files that no encoder of the repository wrote:    *)
(* a well-formed frame under the decoding key whose NAME bytes are         *)
(* arbitrary                                                               *)
(***************************************************************************)
MaxForgedLen == 3
\* ' ', '.', '/', 'a' and 0xFF, a byte that no UTF-8 sequence contains
ForgedBytes == {32, 46, 47, 97, 255}
ForgedNames == UNION {[1..n -> ForgedBytes] : n \in 0..MaxForgedLen}
ForgedPayload == <<33>>
ForgedDepths == {4, 8}
ForgedImgKeys == {KeyAbc, KeyABC}
ForgedAudKeys == {Key5, KeyAbc}
\* the stego image is 4 x 4 pixels
ForgedShape == [w |-> 4, h |-> 4]
\* two samples for every byte of the longest frame
ForgedSamples == 2 * (12 + MaxForgedLen)

\* the carrier bytes of an image that holds the frame
\* MAGIC | KEY_SIG | NAME_LEN | PAYLOAD_LEN | name_bytes | payload
ForgedImage(name_bytes, key, k) ==
    LET cover     == AsSeq([i \in 1..(ForgedShape.w * ForgedShape.h * 3) |-> 0])
        blob      == IMG_MAGIC \o SubSeq(Sha256Head(key), 1, 4) \o LE(Len(name_bytes), 2)
                     \o LE(Len(ForgedPayload), 4) \o name_bytes \o ForgedPayload
        needed    == (Len(blob) * 8 + k - 1) \div k
        positions == Slice(ScatteredPositions(Len(cover), 0, key, ForgedShape.w, ForgedShape.h),
                           0, needed)
    IN EmbedGroups(cover, positions, IterBitsLsb(blob), k, 1, Len(positions))

\* the samples of a WAV file that holds the frame
\* "STG1" | version | name_len | payload_len | name_bytes | payload
ForgedAudio(name_bytes, key, lsb_count) ==
    LET samples == AsSeq([i \in 1..ForgedSamples |-> 0])
        frame   == AUD_MAGIC \o <<1>> \o BE(Len(name_bytes), 2) \o BE(Len(ForgedPayload), 4)
                   \o name_bytes \o ForgedPayload
        bits    == UtilsBytesToBits(frame)
        positions == GenerateEmbeddingSequence(key, Len(bits), Len(samples) * lsb_count, 0)
    IN EmbedLoop(samples, bits, positions, lsb_count, 1, Len(bits))

ForgedInputs ==
    [codec : {"image"}, name : ForgedNames, key : ForgedImgKeys, k : ForgedDepths]
    \cup [codec : {"audio"}, name : ForgedNames, key : ForgedAudKeys, k : ForgedDepths]

ForgedInit ==
    /\ rng = 0
    /\ pc = "forged"
    /\ inp \in ForgedInputs
    /\ carrier = IF inp.codec = "image" THEN ForgedImage(inp.name, inp.key, inp.k)
                 ELSE ForgedAudio(inp.name, inp.key, inp.k)
    /\ enc = NoEnc
    /\ dec = NoDec

\* decode_image(stego, key, k, "0,0") on the forged image
DecodeForgedImage ==
    /\ pc = "forged"
    /\ inp.codec = "image"
    /\ dec' = [key |-> inp.key]
              @@ DecodeImage(carrier, ForgedShape.w, ForgedShape.h, inp.key, inp.k, 0, 0)
    /\ pc' = "decoded"
    /\ UNCHANGED <<inp, carrier, enc, rng>>

\* decode_audio(stego, key, lsb_count, 0) on the forged WAV file
DecodeForgedAudio ==
    /\ pc = "forged"
    /\ inp.codec = "audio"
    /\ dec' = [key |-> inp.key] @@ DecodeAudio(carrier, inp.key, inp.k, 0)
    \* every extraction shuffles the same range under the same seed
    /\ rng' = IF dec'.read # {}
              THEN RngSkip(RngSeed(KeyToInt(inp.key)), Len(carrier) * inp.k - 1)
              ELSE rng
    /\ pc' = "decoded"
    /\ UNCHANGED <<inp, carrier, enc>>

ForgedNext == DecodeForgedImage \/ DecodeForgedAudio

SpecForged == ForgedInit /\ [][ForgedNext]_vars

(***************************************************************************)
(* Properties of the simple codec (checked under SpecSimple)               *)
(***************************************************************************)
SimpleDone == inp.codec = "simple" /\ pc \in {"encoded", "encFailed", "decoded"}

\* bits of the frame MAGIC|VERSION|METADATA_LEN|METADATA|PAYLOAD of the inputs
SimpleFrameBits == 8 * Len(SimpleMessage(inp.key, inp.payload, inp.ptype))

SimpleCover == CoverOf(inp.kind, inp.coverLen)

\* C1: round trip of the simple codec. Whenever encode succeeded, decode with
\* the same key returns exactly the payload, the payload type and a metadata
\* payload_size equal to the payload's length.
C1_SimpleRoundTrip ==
    (inp.codec = "simple" /\ pc = "decoded" /\ dec.key = inp.key)
        => /\ dec.ok
           /\ dec.payload = inp.payload
           /\ dec.name = inp.ptype
           /\ dec.size = Len(inp.payload)

\* C4: wrong-key rejection in the simple codec. Decoding with a key whose
\* SHA-256 digest differs from the encoding key's never returns a payload and
\* raises the ValueError whose message says the key is invalid.
C4_WrongKeyIsInvalidKey ==
    (inp.codec = "simple" /\ pc = "decoded" /\ KeyHash(dec.key) # KeyHash(inp.key))
        => /\ ~dec.ok
           /\ dec.err = "Invalid key - cannot decode with this key"

C9_StrideInvariant ==
    /\ (inp.codec = "stride" /\ pc \in {"strided", "positions"})
          => /\ enc.done
             /\ inp.total > 1 => /\ 1 <= enc.stride /\ enc.stride < inp.total
                                 /\ Gcd(enc.stride, inp.total) = 1
             /\ inp.total <= 1 => enc.stride = 1
    /\ (inp.codec = "stride" /\ pc = "positions" /\ inp.count = inp.total)
          => /\ Len(dec.positions) = inp.total
             /\ {dec.positions[i] : i \in 1..Len(dec.positions)} = 0..(inp.total - 1)

\* C9 witness: a full walk over a composite total whose first stride candidate
\* was not coprime with it (the loop ran)
C9_Witness ==
    /\ inp.codec = "stride" /\ pc = "positions"
    /\ inp.total = 6 /\ inp.count = 6 /\ inp.start = 4
    /\ enc.iters > 0
    /\ Len(dec.positions) = 6

(***************************************************************************)
(* Properties of the image codec (checked under SpecImage)                 *)
(***************************************************************************)
ImageDecoded == pc = "decoded" /\ inp.codec = "image"

\* C2: whenever encode_image succeeded, decode_image with the same key, k and
\* start returns exactly the payload bytes and the sanitized payload name.
C2_ImageRoundTrip ==
    (ImageDecoded /\ dec.key = inp.key) =>
        /\ dec.ok
        /\ dec.payload = inp.payload
        /\ dec.name = SafeName(inp.name)

\* C6: decode_image under a key other than the one encode_image used (same k
\* and start) fails with the wrong-key error.
C6_WrongKeyError ==
    (ImageDecoded /\ dec.key # inp.key) =>
        /\ ~dec.ok
        /\ dec.err = "Wrong key for this stego image."

(***************************************************************************)
(* Properties of the audio codec (checked under SpecAudio)                 *)
(***************************************************************************)
AudioDecoded == pc = "decoded" /\ inp.codec = "audio"

\* C3: whenever encode_audio succeeded (non-empty payload, lsb_count in 1..8),
\* decode_audio with the same key, lsb_count and start takes the STG1 header
\* path (header version 1) and returns exactly the payload bytes and the base
\* name of the payload file.
C3_AudioRoundTrip ==
    (AudioDecoded /\ dec.key = inp.key) =>
        /\ dec.ok
        /\ dec.version = 1
        /\ dec.payload = inp.payload
        /\ dec.name = Basename(inp.name)

\* a round trip from a positive start, three bits per sample, over a cover
\* whose bits differ from the frame's
C3_Witness ==
    /\ AudioDecoded
    /\ dec.key = inp.key
    /\ inp.key = KeyAbc
    /\ inp.lsb = 3
    /\ inp.start > 0
    /\ inp.kind = "ones"
    /\ dec.ok
    /\ dec.payload = <<105>>

\* C7: for two keys that differ after normalization (trim, case-fold),
\* decode_audio under the second never returns the payload encode_audio
\* embedded under the first.
C7_OtherKeyNeverPayload ==
    (AudioDecoded /\ NormalizeKeyStr(dec.key) # NormalizeKeyStr(inp.key)) =>
        ~(dec.ok /\ dec.payload = inp.payload)

(***************************************************************************)
(* Properties of both codecs (checked under SpecCodecs)                    *)
(***************************************************************************)
Encoded == pc \in {"encoded", "encFailed", "decoded"}

ClampTo(v, hi) == IF v < 0 THEN 0 ELSE IF v > hi THEN hi ELSE v

\* the start pixel of the image inputs, and the offset of its first channel
ImgStartPixel == ClampTo(inp.sy, inp.h - 1) * inp.w + ClampTo(inp.sx, inp.w - 1)
\* bytes of the image frame: 14 header bytes, the sanitized name, the payload
ImgFrameLen   == 14 + Len(SafeName(inp.name)) + Len(inp.payload)
ImgSlotsNeeded == (8 * ImgFrameLen + inp.k - 1) \div inp.k
ImgSlotsAvailable == 3 * (inp.w * inp.h - ImgStartPixel)

\* the start slot of the audio inputs (a negative start is taken as 0 before
\* the comparison), the slot count and the bits of the frame
AudStartSlot  == IF inp.start < 0 THEN 0 ELSE inp.start
AudTotalSlots == Len(carrier) * inp.lsb
AudBitsNeeded == 8 * (11 + Len(Basename(inp.name)) + Len(inp.payload))

\* C8: encode_image succeeds iff ceil(8*len(frame)/k) <= 3*(w*h - start_pixel),
\* and _embed_bits_into_samples succeeds iff the frame bits are at most
\* samples*lsb_count - start; equality succeeds in both.
C8_CapacityExact ==
    /\ (Encoded /\ inp.codec = "image" /\ inp.k \in 1..8) =>
          (enc.ok <=> ImgSlotsNeeded <= ImgSlotsAvailable)
    /\ (Encoded /\ inp.codec = "audio" /\ inp.lsb \in 1..8 /\ ValidKey(inp.key)
          /\ Len(inp.payload) > 0) =>
          (enc.ok <=> AudBitsNeeded <= AudTotalSlots - AudStartSlot)

\* encode_image succeeded with exactly as many slots as the frame needs, from
\* a start pixel that is not the first
C8_Witness ==
    /\ pc = "encoded"
    /\ inp.codec = "image"
    /\ inp.k \in 1..8
    /\ ImgStartPixel > 0
    /\ ImgSlotsNeeded = ImgSlotsAvailable
    /\ enc.ok

\* C10: every slot encode_image, decode_image, encode_audio or decode_audio
\* reads or writes lies in [start, T), T the slot count of the carrier.
C10_SuffixOnly ==
    /\ (Encoded /\ inp.codec = "image") =>
          \A slot \in enc.written \cup dec.read :
              3 * ImgStartPixel <= slot /\ slot < Len(carrier)
    /\ (Encoded /\ inp.codec = "audio") =>
          \A slot \in enc.written \cup dec.read :
              AudStartSlot <= slot /\ slot < AudTotalSlots

\* an image was encoded and decoded from a start pixel that is not the first,
\* with slots left unused, and both touched slots
C10_Witness ==
    /\ pc = "decoded"
    /\ inp.codec = "image"
    /\ ImgStartPixel > 0
    /\ enc.ok
    /\ enc.written # {}
    /\ dec.read # {}
    /\ ImgSlotsNeeded < ImgSlotsAvailable

(***************************************************************************)
(* Frame effect of the encoders                                            *)
(***************************************************************************)
\* the cover the image or audio encoder was given
CodecCover ==
    IF inp.codec = "image" THEN CoverOf(inp.kind, 3 * inp.w * inp.h)
    ELSE CoverOf(inp.kind, AudSamples(inp.lsb, inp.extra))

EncodeSucceeded == pc \in {"encoded", "decoded"} /\ enc.ok

C12_LowBitOnly ==
    (inp.codec = "simple" /\ EncodeSucceeded) =>
        /\ Len(carrier) = Len(SimpleCover)
        /\ \A i \in 1..Len(carrier) : carrier[i] \div 2 = SimpleCover[i] \div 2

(***************************************************************************)
(* Error handling of the decoders (checked under SpecAll)                  *)
(***************************************************************************)
Decoded == pc \in {"decoded", "decodedDamaged"}

\* the first 4 frame bytes decode_audio finds under the decoding key
AudMagicRead ==
    Slice(UtilsBitsToBytes(ExtractBitsFromSamples(carrier, 32, inp.lsb, dec.key, inp.start).bits), 0, 4)

\* the slots that hold the 88 header bits of decode_audio under the decoding key
AudHeaderSlots == ExtractBitsFromSamples(carrier, 88, inp.lsb, dec.key, inp.start).read

\* the slots decode_image selects under the decoding key, and the first 4
\* frame bytes it finds in them (k-bit groups, most significant bit first)
ImgDecPositions ==
    ScatteredPositions(Len(carrier), 3 * ImgStartPixel, dec.key, inp.w, inp.h)

ImgMagicRead ==
    LET positions == ImgDecPositions
        bit(q) == BitAt(carrier[positions[((q - 1) \div inp.k) + 1] + 1] % (2 ^ inp.k),
                        (inp.k - 1) - ((q - 1) % inp.k))
    IN Slice(PackBitsLsb(AsSeq([q \in 1..32 |-> bit(q)])), 0, 4)

\* the first 4 frame bytes LSBSteganography.decode finds under the decoding key
SimpleMagicRead == Slice(DecodeMessage(carrier, dec.key).bytes, 0, 4)

\* C13: a decoder that finds the first 4 frame bytes different from its MAGIC
\* fails with its not-a-stego error, reads no slot after the ones it had read
\* when it compared the MAGIC, and takes no carrier bits as a length.
C13_MagicFirst ==
    /\ (Decoded /\ inp.codec = "simple" /\ SimpleMagicRead # MAGIC_HEADER) =>
          /\ ~dec.ok
          /\ dec.err = "Invalid or corrupted steganography data"
    /\ (Decoded /\ inp.codec = "image" /\ Len(ImgDecPositions) * inp.k >= 32
          /\ ImgMagicRead # IMG_MAGIC) =>
          /\ ~dec.ok
          /\ dec.err = "Not a valid stego image for these parameters (MAGIC mismatch)."
          /\ dec.read = {ImgDecPositions[g] : g \in 1..((32 + inp.k - 1) \div inp.k)}
    /\ (Decoded /\ inp.codec = "audio" /\ ValidKey(dec.key) /\ AudMagicRead # AUD_MAGIC) =>
          /\ ~dec.ok
          /\ dec.err \notin {"Decoding failed: legacy length beyond capacity (check key/lsb/start)",
                             "Decoding failed: invalid payload length (check key/lsb/start)"}
          /\ dec.read \subseteq AudHeaderSlots

\* the header bytes decode_image finds under the decoding key: frame bytes
\* 8..13 hold NAME_LEN and PAYLOAD_LEN
ImgHeaderOf(positions) ==
    LET bit(q) == BitAt(carrier[positions[((q - 1) \div inp.k) + 1] + 1] % (2 ^ inp.k),
                        (inp.k - 1) - ((q - 1) % inp.k))
    IN PackBitsLsb(AsSeq([q \in 1..112 |-> bit(q)]))

ImgHeaderRead == ImgHeaderOf(ImgDecPositions)

\* the NAME_LEN and PAYLOAD_LEN of the header decode_image finds, when the
\* header is one of this key, ask for more bits than the eligible slots hold
ImgStreamTooShort ==
    LET positions == ImgDecPositions
        avail     == Len(positions) * inp.k
    IN /\ avail >= 112
       /\ LET hdr == ImgHeaderOf(positions)
          IN /\ Slice(hdr, 0, 4) = IMG_MAGIC
             /\ Slice(hdr, 4, 8) = SubSeq(Sha256Head(dec.key), 1, 4)
             /\ \/ hdr[14] # 0
                \/ hdr[13] # 0
                \/ 8 * (14 + FromLE(Slice(hdr, 8, 10)) + FromLE(Slice(hdr, 10, 12))) > avail

\* C14: when the NAME_LEN and PAYLOAD_LEN decode_image has read imply more
\* bits than the eligible slots hold, it fails with the corrupt-header error
\* and has read no slot beyond the 14 header bytes.
C14_HeaderBoundsChecked ==
    (Decoded /\ inp.codec = "image" /\ ImgStreamTooShort)
    => /\ ~dec.ok
       /\ dec.err = "Corrupted header (filename length)."
       /\ dec.read = {ImgDecPositions[g] : g \in 1..((112 + inp.k - 1) \div inp.k)}

ConAlone(c) ==
    EncodeAudio(ConCover(inp.calls[c]), inp.calls[c].payload, inp.calls[c].name,
                inp.calls[c].key, inp.calls[c].lsb, 0)

\* C16: two encode_audio calls on samples of their own do not interfere: in
\* every interleaving of their steps a finished call has used the position
\* sequence, and has produced the samples, it gives when it runs alone.
C16_NoInterference ==
    \A c \in Calls :
        pc[c] = "done" =>
            LET in == inp.calls[c]
            IN /\ enc[c].positions =
                     GenerateEmbeddingSequence(in.key, Len(ConBits(in)),
                                               Len(carrier[c]) * in.lsb, 0)
               /\ carrier[c] = ConAlone(c).data


(***************************************************************************)
(* Properties of the keys                                                  *)
(***************************************************************************)
\* C17: where the encoding key decodes the carrier, a decoding key that
\* differs from it only in letter case or surrounding whitespace decodes it
\* to the same result.
C17_CaseInsensitive ==
    (pc = "decoded" /\ NormalizeKeyStr(dec.key) = NormalizeKeyStr(inp.key)) =>
        LET r == DecodeUnderEncodingKey
        IN r.ok => dec = [key |-> dec.key] @@ r


\* the cover an encoder was given
CoverGiven ==
    CASE inp.codec = "simple" -> CoverOf(inp.kind, inp.coverLen)
      [] inp.codec = "image"  -> CoverOf(inp.kind, 3 * inp.w * inp.h)
      [] inp.codec = "audio"  -> CoverOf(inp.kind, AudSamples(inp.lsb, inp.extra))

\* C18: called with a key that is empty after trimming, an encoder fails
\* (with the invalid-key error or, here, any other) and leaves the carrier as
\* it was, and no decoder gets to run on its output.
C18_EmptyKeyRejected ==
    (pc # "ready" /\ ~ValidKey(inp.key)) =>
        /\ ~enc.ok
        /\ carrier = CoverGiven
        /\ pc # "decoded"


(***************************************************************************)
(* Properties of the bit-depth checks                                      *)
(***************************************************************************)
BitDepthErrors == {"LSB count must be between 1 and 8", "lsb_count must be between 1 and 8"}

\* the bit depth the encoder was called with
EncDepth == IF inp.codec = "image" THEN inp.k ELSE inp.lsb

\* C19: with a bit depth outside 1..8 and inputs otherwise valid, an encoder
\* fails with the bit-depth error and writes no slot, and a decoder fails with
\* the bit-depth error and reads no slot.
C19_BitDepthChecked ==
    /\ (pc = "encFailed" /\ EncDepth \notin 1..8 /\ ValidKey(inp.key) /\ Len(inp.payload) > 0) =>
          /\ enc.err \in BitDepthErrors
          /\ enc.written = {}
          /\ carrier = CoverGiven
    /\ pc = "decoded" =>
          /\ ~dec.ok
          /\ dec.err \in BitDepthErrors
          /\ dec.read = {}


(***************************************************************************)
(* Properties of the capacity errors                                       *)
(***************************************************************************)
\* the errors with which the encoders reject a payload that does not fit
CapacityErrors ==
    {"Cover data too small for payload", "Cover data too small for message",
     "Payload too large for starting location",
     "Payload too large for selected LSBs and start location"}

\* C20: an encoder that rejects a payload because it does not fit reports the
\* required and the available capacity in bytes with the error.
C20_CapacityErrorFigures ==
    (pc = "encFailed" /\ enc.err \in CapacityErrors) =>
        /\ {"needs", "available"} \subseteq DOMAIN enc
        /\ inp.codec = "image" =>
              /\ enc.needs = ImgFrameLen
              /\ enc.available = (ImgSlotsAvailable * inp.k) \div 8


(***************************************************************************)
(* Properties of the framed NAME (checked under SpecNames)                 *)
(***************************************************************************)
\* what follows the last '/' of the payload path, by position
LastComponent ==
    LET seps == {i \in 1..Len(inp.name) : inp.name[i] = 47}
        last == IF seps = {} THEN 0 ELSE CHOOSE i \in seps : \A j \in seps : j <= i
    IN SubSeq(inp.name, last + 1, Len(inp.name))

\* that component without its leading and trailing whitespace, by position
LastComponentTrimmed ==
    LET c    == LastComponent
        kept == {i \in 1..Len(c) : c[i] \notin SpaceChars}
    IN IF kept = {} THEN <<>>
       ELSE SubSeq(c, CHOOSE i \in kept : \A j \in kept : i <= j,
                      CHOOSE i \in kept : \A j \in kept : j <= i)

C22_OneSlotPerGroup ==
    /\ (pc = "encoded" /\ inp.codec = "simple") =>
          Cardinality(enc.written) = SimpleFrameBits + 8
    /\ (pc = "encoded" /\ inp.codec = "image") =>
          Cardinality(enc.written) = ImgSlotsNeeded


(***************************************************************************)
(* More properties of the stride generator (checked under SpecStride)      *)
(***************************************************************************)
\* C23: get_embedding_positions returns exactly data_length indices, each in
\* 0..cover_size-1, also when data_length exceeds cover_size.
C23_ExactlyDataLength ==
    (inp.codec = "stride" /\ pc = "positions") =>
        /\ Len(dec.positions) = inp.count
        /\ \A i \in 1..Len(dec.positions) :
              dec.positions[i] \in 0..(inp.total - 1)


(***************************************************************************)
(* Properties of the bit order of the image codec (checked under SpecImage)*)
(***************************************************************************)
\* the frame bits encode_image takes from the bit stream, in order
ImgFrameBits == IterBitsLsb(ImageBlob(inp.payload, inp.name, inp.key))

\* the slots of the encoding key, in the order encode_image visits them
ImgEncPositions ==
    ScatteredPositions(Len(carrier), 3 * ImgStartPixel, inp.key, inp.w, inp.h)

\* C24: inside a group of k > 1 bits the order is LSB-first: the j-th frame
\* bit encode_image takes for a slot is bit j of that slot (groups of fewer
\* than k bits left aside), and decode_image, reading bit j of each slot as
\* the j-th bit of its group, finds the MAGIC.
C24_GroupLsbFirst ==
    /\ (pc = "encoded" /\ inp.codec = "image" /\ inp.k > 1) =>
          LET bits      == ImgFrameBits
              positions == ImgEncPositions
          IN \A g \in 1..(Len(bits) \div inp.k) : \A j \in 0..(inp.k - 1) :
                BitAt(carrier[positions[g] + 1], j) = bits[(g - 1) * inp.k + j + 1]
    /\ (ImageDecoded /\ dec.ok /\ inp.k > 1) =>
          LET positions == ImgDecPositions
              lsbBit(q) == BitAt(carrier[positions[((q - 1) \div inp.k) + 1] + 1],
                                 (q - 1) % inp.k)
          IN Slice(PackBitsLsb(AsSeq([q \in 1..32 |-> lsbBit(q)])), 0, 4) = IMG_MAGIC


(***************************************************************************)
(* Properties of key_to_int (checked under SpecKeys)                       *)
(***************************************************************************)
\* the key trimmed and lower-cased, its sign character if it has one, and
\* what follows the sign
KeyNormalized == Lower(Strip(inp.key))
KeyHasSign == Len(KeyNormalized) > 0 /\ KeyNormalized[1] \in {43, 45}
KeyUnsigned == IF KeyHasSign THEN Tail(KeyNormalized) ELSE KeyNormalized

\* C25: for a key whose normalized form is decimal digits after an optional
\* '+' or '-', key_to_int is int(s); for every other non-empty key it is the
\* first 8 bytes of SHA-256(s) as a big-endian unsigned integer.
C25_NumericFastPath ==
    (pc = "derived" /\ Len(KeyNormalized) > 0) =>
        IF IsDigitStr(KeyUnsigned)
        THEN enc.value = [neg |-> KeyNormalized[1] = 45 /\ DecVal(KeyUnsigned) # 0,
                          mag |-> ToBE(DecVal(KeyUnsigned))]
        ELSE enc.value = [neg |-> FALSE,
                          mag |-> LStrip(SubSeq(Sha256Head(KeyNormalized), 1, 8), {0})]


(***************************************************************************)
(* Properties of the bit/byte conversions (checked under SpecBits)         *)
(***************************************************************************)
\* C26: _bytes_to_bits emits bit i of each byte as the i-th of that byte's 8
\* bits, and _bits_to_bytes of the result is the byte string again.
C26_BitsRoundTrip ==
    /\ pc \in {"bits", "bytes"} =>
          /\ Len(enc.bits) = 8 * Len(inp.msg)
          /\ \A b \in 1..Len(inp.msg) : \A i \in 0..7 :
                enc.bits[8 * (b - 1) + i + 1] = (inp.msg[b] \div (2 ^ i)) % 2
    /\ pc = "bytes" => dec.bytes = inp.msg

\* the bytes 1 and 128 went through both conversions: the first bit is the
\* low bit of the first byte
C26_Witness ==
    /\ pc = "bytes"
    /\ inp.msg = <<1, 128>>
    /\ enc.bits[1] = 1 /\ enc.bits[16] = 1
    /\ dec.bytes = <<1, 128>>


(***************************************************************************)
(* Properties of the bit permutation (checked under SpecPerm)              *)
(***************************************************************************)
\* C27: bit_permutation is a permutation of 0..7, and permute_byte_bits with
\* reverse=True undoes permute_byte_bits for every byte.
C27_PermutationInverts ==
    /\ pc \in {"permuted", "restored"} =>
          /\ Len(enc.perm) = 8
          /\ {enc.perm[i] : i \in 1..8} = 0..7
    /\ pc = "restored" => dec.value = inp.byte

\* key 'abc' (bit_permutation [2, 4, 6, 1, 7, 0, 3, 5], not its own inverse)
\* moved the byte 1 to 4 and back
C27_Witness ==
    /\ pc = "restored"
    /\ inp.key = KeyAbc /\ inp.byte = 1
    /\ enc.perm = <<2, 4, 6, 1, 7, 0, 3, 5>>
    /\ enc.value = 4
    /\ dec.value = 1


(***************************************************************************)
(* Properties of failed encodes (checked under SpecDecoders)               *)
(***************************************************************************)
\* C28: an encoder that fails for capacity or for the bit depth has written
\* no slot: the carrier is the cover it was given.
C28_FailureAtomic ==
    (pc = "encFailed" /\ enc.err \in (CapacityErrors \cup BitDepthErrors)) =>
        /\ ~enc.ok
        /\ enc.written = {}
        /\ carrier = CoverGiven

\* _embed_bits_into_samples has failed for capacity at a valid bit depth,
\* and the samples are those of the cover
C28_Witness ==
    /\ pc = "encFailed"
    /\ inp.codec = "audio"
    /\ inp.lsb \in 1..8
    /\ enc.err = "Payload too large for selected LSBs and start location"
    /\ carrier = CoverGiven


(***************************************************************************)
(* Properties of the position sequences (checked under SpecPrefix)         *)
(***************************************************************************)
\* C29: for the same key, start and carrier size, the sequence returned for
\* n positions is the first part of the sequence returned for m >= n: as
\* many entries as the longer one has, up to n, and the same entries in the
\* same order (so the 88 header slots are the first 88 slots of a frame).
C29_PrefixConsistent ==
    pc = "long" =>
        /\ Len(enc.seq) = (IF inp.n < Len(dec.seq) THEN inp.n ELSE Len(dec.seq))
        /\ \A i \in 1..Len(enc.seq) : enc.seq[i] = dec.seq[i]

\* the 88 header positions and the positions of the longest frame, shuffled
\* under the same key: the long sequence does not start in carrier order
C29_Witness ==
    /\ pc = "long"
    /\ inp.gen = "shuffle"
    /\ inp.n = 88 /\ inp.m = AudFrameBits /\ inp.size = AudFrameBits
    /\ Len(enc.seq) = 88 /\ Len(dec.seq) = AudFrameBits
    /\ enc.seq = SubSeq(dec.seq, 1, 88)
    /\ dec.seq # Range(inp.start, inp.size)


(***************************************************************************)
(* Properties of the decoded file names (checked under SpecForged)         *)
(***************************************************************************)
\* what follows the last '/' of a text, by position
AfterLastSlash(s) ==
    LET seps == {i \in 1..Len(s) : s[i] = 47}
        last == IF seps = {} THEN 0 ELSE CHOOSE i \in seps : \A j \in seps : j <= i
    IN SubSeq(s, last + 1, Len(s))

\* a text without its leading and trailing whitespace, by position
TrimmedText(s) ==
    LET kept == {i \in 1..Len(s) : s[i] \notin SpaceChars}
    IN IF kept = {} THEN <<>>
       ELSE SubSeq(s, CHOOSE i \in kept : \A j \in kept : i <= j,
                      CHOOSE i \in kept : \A j \in kept : j <= i)

\* C30: whatever NAME bytes the stego file holds, the file name a
\* successful decode_image or decode_audio derives from them is not empty
\* and holds no '/'; where the bytes leave nothing, it is the placeholder.
C30_DecodedNameInside ==
    pc = "decoded" =>
        /\ dec.ok
        /\ Len(dec.name) > 0
        /\ \A i \in 1..Len(dec.name) : dec.name[i] # 47
        /\ LET text == SelectSeq(inp.name, LAMBDA b : b # 255)
               last == AfterLastSlash(text)
           IN IF inp.codec = "image"
              THEN dec.name = (IF TrimmedText(last) = <<>> THEN PayloadBin
                               ELSE TrimmedText(last))
              ELSE dec.name = (IF last = <<>> THEN ExtractedBin ELSE last)

\* a decoder has met NAME bytes with a directory part, or NAME bytes
\* that leave nothing: "/a/" gives the placeholder, "./a" gives "a"
C30_Witness ==
    /\ pc = "decoded"
    /\ dec.ok
    /\ \/ inp.name = <<47, 97, 47>> /\ dec.name \in {PayloadBin, ExtractedBin}
       \/ inp.name = <<46, 47, 97>> /\ dec.name = <<97>>

====
